---- MODULE Spec2Model ----
(***************************************************************************)
(* LRUSS, a Redis based URL shortening service (z0rr0/lruss).              *)
(*                                                                         *)
(* The Redis store is the only shared state.  Every request handler is a   *)
(* sequence of store round trips; each round trip is one atomic step that  *)
(* either succeeds or fails with a connection error, and requests of       *)
(* different workers interleave between round trips.                       *)
(***************************************************************************)
EXTENDS Integers, Sequences, FiniteSets, Bags, TLC

VARIABLES
    cfg,        \* configuration: rate limiter settings (conf.Cfg.Rate)
    count,      \* value of key count:count, 0 when the key is absent
    urls,       \* keys url:<code>: function code -> stored URL
    hosts,      \* keys host:<clientKey>: function key -> [n, ttl]
    csrf,       \* keys csrf:<user>: function user -> [val, ttl]
    sessions,   \* keys session:<user>: function user -> set of tokens
    req,        \* the requests in flight: a bag of request records
    last,       \* the outcome of the request that finished last
    started,    \* number of requests started so far
    minted,     \* number of random tokens generated so far
    responses,  \* history: the 200 responses of HandleAPI, in order
    handed,     \* history: the ids obtained from the counter, in order
    admins,     \* keys user:<user>: function user -> password hash
    granted,    \* the tokens GetCSRF returned, until the user's token expires
    logouts,    \* history: cookies whose Logout removed the session
    encOp,      \* the call of the encoder in progress: trim.Encode or trim.Decode
    passed      \* history: per client key, the requests allowedRate let pass

vars ==
    <<cfg, count, urls, hosts, csrf, sessions, req, last, started, minted,
      responses, handed, admins, granted, logouts, encOp, passed>>

----------------------------------------------------------------------------
(* Bounds of the model *)

NumProcs ==
    2
MaxReqs ==
    2
MaxNum ==
    130
HighSpan ==
    4
MaxCodeLen ==
    3
MaxRateCount ==
    3
RateInterval ==
    2
MaxAdminReqs ==
    3
MaxDispReqs ==
    2
MaxTokens ==
    4
CSRFTimeout ==
    2
MaxLinks ==
    3

----------------------------------------------------------------------------
(* trim: the fixed-radix positional encoder *)

Alphabet ==
    << "0","1","2","3","4","5","6","7","8","9",
       "A","B","C","D","E","F","G","H","I","J","K","L","M",
       "N","O","P","Q","R","S","T","U","V","W","X","Y","Z",
       "a","b","c","d","e","f","g","h","i","j","k","l","m",
       "n","o","p","q","r","s","t","u","v","w","x","y","z" >>

basis ==
    Len(Alphabet)

\* strings.Index(Alphabet, ch): position of ch counted from 0, -1 when absent
AlphabetIndex(ch) ==
    IF \E i \in 1..Len(Alphabet) : Alphabet[i] = ch
    THEN (CHOOSE i \in 1..Len(Alphabet) : Alphabet[i] = ch) - 1
    ELSE -1

RECURSIVE EncodeDigits(_)
EncodeDigits(x) ==
    IF x = 0 THEN << >>
    ELSE Append(EncodeDigits(x \div basis), Alphabet[(x % basis) + 1])

\* a mutant: the digits come out least significant first, and zeros are lost
RECURSIVE EncodeSwapped(_)
EncodeSwapped(x) ==
    IF x = 0 THEN << >>
    ELSE IF x % basis = 0 THEN EncodeSwapped(x \div basis)
    ELSE <<Alphabet[(x % basis) + 1]>> \o EncodeSwapped(x \div basis)

EncodeReversed(x) ==
    EncodeSwapped(x)

Encode(x) ==
    IF x = 0 THEN <<Alphabet[1]>> ELSE EncodeDigits(x)

RECURSIVE DecodeFrom(_, _)
DecodeFrom(s, acc) ==
    IF s = << >> THEN [n |-> acc, ok |-> TRUE]
    ELSE IF AlphabetIndex(Head(s)) < 0 THEN [n |-> 0, ok |-> FALSE]
    ELSE DecodeFrom(Tail(s), acc * basis + AlphabetIndex(Head(s)))

\* a mutant: characters outside the alphabet are skipped
RECURSIVE DecodeSkipping(_, _)
DecodeSkipping(s, acc) ==
    IF s = << >> THEN [n |-> acc, ok |-> TRUE]
    ELSE IF AlphabetIndex(Head(s)) < 0 THEN DecodeSkipping(Tail(s), acc)
    ELSE DecodeSkipping(Tail(s), acc * basis + AlphabetIndex(Head(s)))

DecodeLenient(s) ==
    DecodeSkipping(s, 0)

Decode(s) ==
    IF s = << >> THEN [n |-> 0, ok |-> FALSE] ELSE DecodeFrom(s, 0)

\* the numbers and the strings the encoder is exercised with
EncNums ==
    (0..MaxNum) \cup ((basis * basis - HighSpan)..(basis * basis + HighSpan))

DecChars ==
    {"0", "9", "A", "Z", "a", "z", "-", "_", ":", " "}

RECURSIVE StringsUpTo(_)
StringsUpTo(k) ==
    IF k = 0 THEN {<< >>}
    ELSE LET shorter == StringsUpTo(k - 1)
         IN  shorter \cup {Append(s, ch) : s \in shorter, ch \in DecChars}

DecStrings ==
    StringsUpTo(MaxCodeLen)

NoEnc ==
    [op |-> "none", n |-> 0, code |-> << >>, ok |-> TRUE]

DoEncode(x) ==
    encOp' = [op |-> "encode", n |-> x, code |-> Encode(x), ok |-> TRUE]

DoDecode(s) ==
    encOp' = [op |-> "decode", n |-> Decode(s).n, code |-> s, ok |-> Decode(s).ok]

----------------------------------------------------------------------------
(* The store primitives (Redis commands) used by the handlers *)

\* INCR: an absent key counts as 0
StoreIncrStuck(v) ==
    IF v = 0 THEN 1 ELSE v

StoreIncr(v) ==
    v + 1

\* SET key value: unconditional write.  The mutant forgets the code in the
\* key and always writes the same key.
StoreSetFixedKey(m, k, v) ==
    (<<Alphabet[1]>> :> v) @@ m

\* another mutant: the write leaves no other key behind
StoreSetAlone(m, k, v) ==
    (k :> v)

\* another mutant: the write goes to the key with one more character
StoreSetShifted(m, k, v) ==
    (Append(k, Alphabet[1]) :> v) @@ m

\* another mutant: the write is acknowledged and nothing is written
StoreSetDropped(m, k, v) ==
    m

StoreSet(m, k, v) ==
    (k :> v) @@ m

\* the keys of a TTL-bound map lose one second; a key whose time is up is
\* deleted; ttl = 0 marks a key without expiry
Aged(m) ==
    [k \in {x \in DOMAIN m : m[x].ttl # 1} |->
        IF m[k].ttl = 0 THEN m[k] ELSE [m[k] EXCEPT !.ttl = @ - 1]]

Empty ==
    [x \in {} |-> 0]

----------------------------------------------------------------------------
(* Requests *)

\* the bag of requests in flight without / with the request r
Take(b, r) ==
    b (-) SetToBag({r})

Put(b, r) ==
    b (+) SetToBag({r})

\* a worker is free and the client sends another request
Free ==
    BagCardinality(req) < NumProcs /\ started < MaxReqs

\* a finished request: only its outcome is kept
Done(kind, status) ==
    [kind |-> kind, status |-> status]

\* the request r goes on as r2
Step(r, r2) ==
    req' = Put(Take(req, r), r2) /\ UNCHANGED last

\* the request r ends with the outcome d
Finish(r, d) ==
    req' = Take(req, r) /\ last' = d

\* the unchanged parts of the state, by subsystem
KeepApi ==
    UNCHANGED <<count, urls, hosts, responses, handed, passed>>
KeepAdmin ==
    UNCHANGED <<csrf, sessions, minted, admins, granted, logouts>>
KeepEnc ==
    UNCHANGED encOp

----------------------------------------------------------------------------
(* web.dbKey: the keys of the store *)

\* strings are sequences of characters here
Count5 ==
    <<"c", "o", "u", "n", "t">>
Host4 ==
    <<"h", "o", "s", "t">>
Tpl3 ==
    <<"t", "p", "l">>
Url3 ==
    <<"u", "r", "l">>
Session7 ==
    <<"s", "e", "s", "s", "i", "o", "n">>
Csrf4 ==
    <<"c", "s", "r", "f">>
User4 ==
    <<"u", "s", "e", "r">>

\* dbPrefixes: the map from the prefix asked for to the prefix of the key
dbPrefixes ==
    (Count5 :> Count5) @@ (Host4 :> Host4) @@ (Tpl3 :> Tpl3) @@ (Url3 :> Url3)

\* dbKey(prefix, value): fmt.Sprintf("%v:%v", dbPrefix, value), or the error
\* "not found db key"
dbKey(prefix, value) ==
    IF prefix \in DOMAIN dbPrefixes
    THEN [key |-> dbPrefixes[prefix] \o <<":">> \o value, ok |-> TRUE]
    ELSE [key |-> << >>, ok |-> FALSE]

\* the prefixes and values the key builder is asked for
AskedPrefixes ==
    {Count5, Host4, Tpl3, Url3, Session7, Csrf4, User4,
     << >>, <<"u", "r", "l", ":">>, <<"u", "r">>, <<"l", "o", "c", "k">>}

AskedValues ==
    {<< >>, <<"a">>, <<":", "a">>, <<"l", ":", "a">>, <<"*">>}

\* one call of dbKey; the call before it is kept next to it
dbKeyCall(prefix, value) ==
    /\ last' = [kind |-> "dbKey", status |-> 0,
                prefix |-> prefix, value |-> value,
                out |-> dbKey(prefix, value),
                before |-> IF last.kind = "dbKey"
                           THEN [prefix |-> last.prefix, out |-> last.out]
                           ELSE [prefix |-> prefix, out |-> dbKey(prefix, value)]]
    /\ UNCHANGED <<cfg, req, started>>
    /\ KeepApi /\ KeepAdmin /\ KeepEnc

----------------------------------------------------------------------------
(* web.HandleAPI, web.allowedRate, web.HandleRedirect *)

\* the url form values of the model: scheme and the rest of the string; a
\* value without scheme is a relative reference
RawURLs ==
    { [scheme |-> "",      rest |-> ""],
      [scheme |-> "",      rest |-> "not-a-url"],
      [scheme |-> "http",  rest |-> "//x/%zz"],
      [scheme |-> "https", rest |-> "//example.com/a"],
      [scheme |-> "HTTPS", rest |-> "//example.com/b"] }

\* url.Parse fails on an invalid percent escape
ParseOK(raw) ==
    raw.rest # "//x/%zz"

\* url.Parse lower-cases the scheme
ToLower(s) ==
    IF s = "HTTPS" THEN "https" ELSE s

\* url.Parse followed by URL.String
URLString(raw) ==
    [scheme |-> ToLower(raw.scheme), rest |-> raw.rest]

\* URL.IsAbs.  The variant takes every reference as absolute.
IsAbsAlways(raw) ==
    TRUE

IsAbs(raw) ==
    raw.scheme # ""

Addrs ==
    {"10.0.0.1"}

Agents ==
    {"curl", "firefox"}

\* the rate limiter's client key: the address, with the user agent when
\* cfg.Rate.CheckUserAgent is set.  The variant leaves the user agent out.
ClientKeyAddr(addr, ua) ==
    <<addr>>

ClientKey(addr, ua) ==
    IF cfg.checkUA THEN <<addr, "ua", ua>> ELSE <<addr>>

HandleAPIStart(raw, addr, ua) ==
    /\ Free
    /\ started' = started + 1
    /\ IF raw.rest = "" \/ ~ParseOK(raw) \/ ~IsAbs(raw)
       THEN req' = req /\ last' = [kind |-> "api", status |-> 400, raw |-> raw]
       ELSE /\ req' = Put(req,
                  [kind |-> "api", raw |-> raw, url |-> URLString(raw),
                   key |-> ClientKey(addr, ua), rate |-> 0, short |-> << >>,
                   pc |-> IF cfg.active THEN "rateIncr" ELSE "countIncr"])
            /\ UNCHANGED last
    /\ UNCHANGED cfg
    /\ KeepApi /\ KeepAdmin /\ KeepEnc

\* allowedRate: the decision on a count other than 1.  The variant lets
\* every request pass.
AllowedAlways(n) ==
    TRUE

\* another variant: the limit itself is still let pass
AllowedUpTo(n) ==
    n <= cfg.count

Allowed(n) ==
    n < cfg.count

\* INCR keeps the expiry of the key.  The variant drops it.
HostTTLReset(k) ==
    0

HostTTL(k) ==
    IF k \in DOMAIN hosts THEN hosts[k].ttl ELSE 0

\* the history of a client key: the age in seconds of each request that was
\* let pass during the last cfg.Rate.Interval seconds, and the number of
\* requests let pass since the key's counter was created
NoPass ==
    [ages |-> << >>, life |-> 0]

PassedOf(k) ==
    IF k \in DOMAIN passed THEN passed[k] ELSE NoPass

\* allowedRate returns (true, nil) for the client key k
Pass(k) ==
    (k :> [ages |-> Append(PassedOf(k).ages, 0),
           life |-> PassedOf(k).life + 1]) @@ passed

\* one second later: the ages grow, requests older than the interval are
\* forgotten, and the count of a key starts again when its counter is gone
RECURSIVE Older(_)
Older(ages) ==
    IF ages = << >> THEN << >>
    ELSE IF Head(ages) + 1 >= cfg.interval THEN Older(Tail(ages))
    ELSE <<Head(ages) + 1>> \o Older(Tail(ages))

PassedLater(left) ==
    [k \in DOMAIN passed |->
        [ages |-> Older(passed[k].ages),
         life |-> IF k \in left THEN passed[k].life ELSE 0]]

\* allowedRate: INCR host key, then the decision on the new count
AllowedRateIncr(r) ==
    /\ r.kind = "api" /\ r.pc = "rateIncr"
    /\ \E ok \in BOOLEAN :
        IF ok
        THEN LET k == r.key
                 n == StoreIncr(IF k \in DOMAIN hosts THEN hosts[k].n ELSE 0)
                 t == HostTTL(k)
             IN  /\ hosts' = (k :> [n |-> n, ttl |-> t]) @@ hosts
                 /\ IF n = 1
                    THEN /\ Step(r, [r EXCEPT !.pc = "rateExpire", !.rate = n])
                         /\ UNCHANGED passed
                    ELSE IF Allowed(n)
                    THEN /\ Step(r, [r EXCEPT !.pc = "countIncr", !.rate = n])
                         /\ passed' = Pass(k)
                    ELSE /\ Finish(r, Done("api", 429))
                         /\ UNCHANGED passed
        ELSE /\ Finish(r, Done("api", 500))
             /\ UNCHANGED <<hosts, passed>>
    /\ UNCHANGED <<cfg, started, count, urls, responses, handed>>
    /\ KeepAdmin /\ KeepEnc

\* the seconds given to EXPIRE: cfg.Rate.Interval.  The variant gives one
\* second less.
RateExpiryShort ==
    cfg.interval - 1

RateExpiry ==
    cfg.interval

\* allowedRate: EXPIRE host key, for the request that created the counter
AllowedRateExpire(r) ==
    /\ r.kind = "api" /\ r.pc = "rateExpire"
    /\ \E ok \in BOOLEAN :
        IF ok
        THEN /\ hosts' = IF r.key \in DOMAIN hosts
                         THEN [hosts EXCEPT ![r.key].ttl = RateExpiry]
                         ELSE hosts
             /\ Step(r, [r EXCEPT !.pc = "countIncr"])
             /\ passed' = Pass(r.key)
        ELSE /\ Finish(r, Done("api", 500))
             /\ UNCHANGED <<hosts, passed>>
    /\ UNCHANGED <<cfg, started, count, urls, responses, handed>>
    /\ KeepAdmin /\ KeepEnc

\* HandleAPI: INCR count:count and the encoding of the id
HandleAPIIncr(r) ==
    /\ r.kind = "api" /\ r.pc = "countIncr"
    /\ \E ok \in BOOLEAN :
        IF ok
        THEN /\ count' = StoreIncr(count)
             /\ handed' = Append(handed, count')
             /\ Step(r, [r EXCEPT !.pc = "urlSet", !.short = Encode(count')])
        ELSE /\ Finish(r, Done("api", 500))
             /\ UNCHANGED <<count, handed>>
    /\ UNCHANGED <<cfg, started, urls, hosts, responses, passed>>
    /\ KeepAdmin /\ KeepEnc

\* a variant of HandleAPISet that gives the id back when SET fails
HandleAPISetRollback(r) ==
    /\ r.kind = "api" /\ r.pc = "urlSet"
    /\ \E out \in {"ok", "setFailed", "writeFailed"} :
        /\ urls' = IF out = "setFailed" THEN urls
                   ELSE StoreSet(urls, r.short, r.url)
        /\ count' = IF out = "setFailed" THEN count - 1 ELSE count
        /\ responses' = IF out = "ok"
                        THEN Append(responses,
                                [raw |-> r.raw, url |-> r.url, short |-> r.short])
                        ELSE responses
        /\ Finish(r, Done("api", IF out = "ok" THEN 200
                                 ELSE IF out = "setFailed" THEN 503 ELSE 500))
    /\ UNCHANGED <<cfg, started, hosts, handed, passed>>
    /\ KeepAdmin /\ KeepEnc

\* HandleAPI: SET url:<short> and the JSON response
HandleAPISet(r) ==
    /\ r.kind = "api" /\ r.pc = "urlSet"
    /\ \E out \in {"ok", "setFailed", "writeFailed"} :
        /\ urls' = IF out = "setFailed" THEN urls
                   ELSE StoreSet(urls, r.short, r.url)
        /\ responses' = IF out = "ok"
                        THEN Append(responses,
                                [raw |-> r.raw, url |-> r.url, short |-> r.short])
                        ELSE responses
        /\ Finish(r, Done("api", IF out = "ok" THEN 200
                                 ELSE IF out = "setFailed" THEN 503 ELSE 500))
    /\ UNCHANGED <<cfg, started, count, hosts, handed, passed>>
    /\ KeepAdmin /\ KeepEnc

NoURL ==
    [scheme |-> "", rest |-> ""]

\* the answer of HandleRedirect when the store answers.  The variant
\* LookupBlank redirects without the stored URL.
LookupBlank(short) ==
    IF short \in DOMAIN urls
    THEN [status |-> 302, location |-> NoURL]
    ELSE [status |-> 404, location |-> NoURL]

Lookup(short) ==
    IF short \in DOMAIN urls
    THEN [status |-> 302, location |-> urls[short]]
    ELSE [status |-> 404, location |-> NoURL]

\* the short paths requested from the resolver
ShortPaths ==
    {Encode(n) : n \in 1..(MaxReqs + 1)}

\* the reply of GET url:<short>: a value, nil (redis.ErrNil) or an error
GetReply(short, ok) ==
    IF ~ok THEN "error" ELSE IF short \in DOMAIN urls THEN "value" ELSE "nil"

\* the status HandleRedirect returns for a reply.  The variant reports
\* every failed lookup as not found.
RedirectStatusNotFound(reply) ==
    IF reply = "value" THEN 302 ELSE 404

RedirectStatus(reply) ==
    IF reply = "value" THEN 302 ELSE IF reply = "nil" THEN 404 ELSE 503

HandleRedirect(short) ==
    /\ Free
    /\ started' = started + 1
    /\ \E ok \in BOOLEAN :
        LET reply == GetReply(short, ok)
        IN  last' = [kind |-> "redirect", short |-> short, reply |-> reply,
                     status |-> RedirectStatus(reply),
                     location |-> IF reply = "value"
                                  THEN Lookup(short).location ELSE NoURL]
    /\ UNCHANGED <<cfg, req>>
    /\ KeepApi /\ KeepAdmin /\ KeepEnc

\* one second passes: TTL-bound keys age, expired keys disappear
Tick ==
    /\ \/ \E k \in DOMAIN hosts : hosts[k].ttl > 0
       \/ \E u \in DOMAIN csrf : csrf[u].ttl > 0
    /\ hosts' = Aged(hosts)
    /\ passed' = PassedLater(DOMAIN hosts')
    /\ csrf' = Aged(csrf)
    /\ granted' = {g \in granted : g.user \in DOMAIN csrf'}
    /\ UNCHANGED <<cfg, count, urls, req, last, started, responses, handed>>
    /\ UNCHANGED <<sessions, minted, admins, logouts>>
    /\ KeepEnc

\* the worker is lost between two round trips (the process is killed); what
\* it wrote stays written
Abandon(r) ==
    /\ Finish(r, Done(r.kind, 0))
    /\ UNCHANGED <<cfg, started>>
    /\ KeepApi /\ KeepAdmin /\ KeepEnc

----------------------------------------------------------------------------
(* admin: GetCSRF and CheckCSRF *)

\* GetContext: the user of a request without authenticated session
Anonymous ==
    <<"anonymous">>

\* user names are strings, kept as the sequence of their pieces between
\* occurrences of the cookie separator
Sep ==
    "::"

Usernames ==
    {<<"admin">>, <<"ops">>}

CtxUsers ==
    Usernames \cup {Anonymous}

\* the k-th value read from crypto/rand, in the three encodings in use:
\* hex of csrfLen bytes, base64 of sessionLen bytes, hex of passLen bytes
CsrfTok(k) ==
    "c" \o ToString(k)

SessTok(k) ==
    <<"s" \o ToString(k)>>

Passwd(k) ==
    "p" \o ToString(k)

\* the value CheckCSRF compares with when the key is absent
NotFound ==
    "not found"

BadToken ==
    "bad token"

FreeAdmin ==
    BagCardinality(req) < NumProcs /\ started < MaxAdminReqs

\* SETNX.  The variant writes like SET, over a value that is there.
StoreSetOver(m, k, v) ==
    (k :> v) @@ m

StoreSetNX(m, k, v) ==
    IF k \in DOMAIN m THEN m ELSE (k :> v) @@ m

\* GetCSRF returns tok to its caller: the request ends (a direct call), or
\* Login goes on with the form
CsrfReturn(r, tok) ==
    /\ granted' = granted \cup {[user |-> r.user, tok |-> tok]}
    /\ IF r.kind = "getcsrf"
       THEN Finish(r, [kind |-> "getcsrf", status |-> 200, user |-> r.user,
                       token |-> tok])
       ELSE IF r.kind = "index"
       THEN Step(r, [r EXCEPT !.pc = "indexStats"])
       ELSE IF r.method = "POST"
       THEN Step(r, [r EXCEPT !.pc = "checkPassword", !.token = ""])
       ELSE Finish(r, [kind |-> "login", status |-> 200, cookie |-> << >>])

GetCSRFStart(u) ==
    /\ FreeAdmin
    /\ started' = started + 1
    /\ req' = Put(req, [kind |-> "getcsrf", pc |-> "csrfGet", user |-> u,
                        token |-> ""])
    /\ UNCHANGED <<cfg, last>>
    /\ KeepApi /\ KeepAdmin /\ KeepEnc

\* GetCSRF: GET csrf:<user>; a new token is generated when there is none
GetCSRFGet(r) ==
    /\ r.pc = "csrfGet"
    /\ \E ok \in BOOLEAN :
        IF ~ok
        THEN Finish(r, Done(r.kind, 500)) /\ UNCHANGED <<minted, granted>>
        ELSE IF r.user \in DOMAIN csrf
        THEN CsrfReturn(r, csrf[r.user].val) /\ UNCHANGED minted
        ELSE /\ minted < MaxTokens
             /\ minted' = minted + 1
             /\ Step(r, [r EXCEPT !.pc = "csrfSetnx", !.token = CsrfTok(minted')])
             /\ UNCHANGED granted
    /\ UNCHANGED <<cfg, started, csrf, sessions, admins, logouts>>
    /\ KeepApi /\ KeepEnc

\* GetCSRF: SETNX csrf:<user> token
GetCSRFSetNX(r) ==
    /\ r.pc = "csrfSetnx"
    /\ \E ok \in BOOLEAN :
        IF ~ok
        THEN Finish(r, Done(r.kind, 500)) /\ UNCHANGED <<csrf, granted>>
        ELSE /\ csrf' = StoreSetNX(csrf, r.user, [val |-> r.token, ttl |-> 0])
             /\ IF r.user \notin DOMAIN csrf
                THEN Step(r, [r EXCEPT !.pc = "csrfExpire"]) /\ UNCHANGED granted
                ELSE CsrfReturn(r, r.token)
    /\ UNCHANGED <<cfg, started, minted, sessions, admins, logouts>>
    /\ KeepApi /\ KeepEnc

\* GetCSRF: EXPIRE csrf:<user>, for the request whose SETNX stored the token
GetCSRFExpire(r) ==
    /\ r.pc = "csrfExpire"
    /\ \E ok \in BOOLEAN :
        IF ~ok
        THEN Finish(r, Done(r.kind, 500)) /\ UNCHANGED <<csrf, granted>>
        ELSE /\ csrf' = IF r.user \in DOMAIN csrf
                        THEN [csrf EXCEPT ![r.user].ttl = CSRFTimeout]
                        ELSE csrf
             /\ CsrfReturn(r, r.token)
    /\ UNCHANGED <<cfg, started, minted, sessions, admins, logouts>>
    /\ KeepApi /\ KeepEnc

\* CheckCSRF: the value the supplied token is compared with.  The mutant
\* reads the token of the anonymous user for every user.
StoredCSRFShared(u) ==
    IF Anonymous \in DOMAIN csrf THEN csrf[Anonymous].val ELSE NotFound

StoredCSRF(u) ==
    IF u \in DOMAIN csrf THEN csrf[u].val ELSE NotFound

\* hmac.Equal on the bytes of the two strings
HmacEqual(a, b) ==
    a = b

\* the answer of CheckCSRF when the store answers
CheckResult(u, s) ==
    HmacEqual(s, StoredCSRF(u))

\* the csrftoken form values clients send
SuppliedTokens ==
    {CsrfTok(k) : k \in 1..minted} \cup {NotFound, BadToken}

CheckCSRF(u, s) ==
    /\ FreeAdmin
    /\ started' = started + 1
    /\ \E ok \in BOOLEAN :
        last' = [kind |-> "checkcsrf", status |-> IF ok THEN 200 ELSE 500,
                 user |-> u, token |-> s, found |-> u \in DOMAIN csrf,
                 valid |-> ok /\ CheckResult(u, s)]
    /\ UNCHANGED <<cfg, req>>
    /\ KeepApi /\ KeepAdmin /\ KeepEnc

----------------------------------------------------------------------------
(* admin: CreateOrUpdate, Auth, Login, Logout *)

\* bcrypt.GenerateFromPassword and bcrypt.CompareHashAndPassword
Bcrypt(pw) ==
    <<"bcrypt", pw>>

CompareHashAndPassword(h, pw) ==
    h = Bcrypt(pw)

\* the passwords CreateOrUpdate printed for the users
PasswordOf(u) ==
    IF u = <<"admin">> THEN Passwd(1) ELSE Passwd(2)

\* what clients type as password: the two passwords and a string that is
\* not the hex of passLen bytes
TypedPasswords ==
    {Passwd(1), Passwd(2), "zz"}

\* hex.DecodeString succeeds and gives passLen bytes
WellFormed(pw) ==
    \E k \in 1..MaxTokens : pw = Passwd(k)

\* strings.SplitN(cookie, "::", 2)
HasSep(c) ==
    \E i \in 1..Len(c) : c[i] = Sep

SepAt(c) ==
    CHOOSE i \in 1..Len(c) : c[i] = Sep /\ \A j \in 1..(i - 1) : c[j] # Sep

UserPart(c) ==
    SubSeq(c, 1, SepAt(c) - 1)

TokenPart(c) ==
    SubSeq(c, SepAt(c) + 1, Len(c))

\* fmt.Sprintf("%v::%v", username, value)
CookieOf(u, t) ==
    u \o <<Sep>> \o t

\* SADD, SREM, SISMEMBER on the session sets; an empty set is no key.  The
\* mutants replace the set (SET) and delete the key (DEL).
SAddReplace(m, u, t) ==
    (u :> {t}) @@ m

SAdd(m, u, t) ==
    (u :> ((IF u \in DOMAIN m THEN m[u] ELSE {}) \cup {t})) @@ m

SRemAll(m, u, t) ==
    [x \in (DOMAIN m) \ {u} |-> m[x]]

SRem(m, u, t) ==
    IF u \in DOMAIN m /\ m[u] \ {t} # {}
    THEN [m EXCEPT ![u] = @ \ {t}]
    ELSE [x \in (DOMAIN m) \ {u} |-> m[x]]

SIsMember(m, u, t) ==
    u \in DOMAIN m /\ t \in m[u]

\* Auth succeeds on the cookie value c.  The variant asks only for a
\* session set of the user.
AuthOKAnyToken(c) ==
    HasSep(c) /\ UserPart(c) \in DOMAIN sessions

AuthOK(c) ==
    HasSep(c) /\ SIsMember(sessions, UserPart(c), TokenPart(c))

\* the user Auth leaves in the request context; ok: the store answered
AuthCtx(c, ok) ==
    IF ok /\ AuthOK(c) THEN UserPart(c) ELSE Anonymous

\* the members of the session sets, each with its user
SessionPairs ==
    UNION {{<<u, t>> : t \in sessions[u]} : u \in DOMAIN sessions}

\* the session cookie values clients send: none, malformed, forged, the
\* ones of the open sessions and the ones that were logged out
Cookies ==
    {<< >>, <<"admin">>, CookieOf(<<"admin">>, SessTok(0))}
    \cup {CookieOf(p[1], p[2]) : p \in SessionPairs}
    \cup logouts

\* the login form of a request
LoginForms ==
    {[method |-> "GET", fuser |-> << >>, fpass |-> ""]}
    \cup {[method |-> "POST", fuser |-> u, fpass |-> PasswordOf(u)] :
            u \in Usernames}
    \cup {[method |-> "POST", fuser |-> <<"admin">>, fpass |-> pw] :
            pw \in TypedPasswords}

\* the dispatcher's Auth and the entry of Login
LoginStart(c, f) ==
    /\ FreeAdmin
    /\ started' = started + 1
    /\ \E ok \in BOOLEAN :
        IF AuthCtx(c, ok) # Anonymous
        THEN req' = req /\ last' = [kind |-> "login", status |-> 302,
                                    cookie |-> << >>]
        ELSE /\ req' = Put(req, [kind |-> "login", pc |-> "csrfGet",
                                 user |-> Anonymous, method |-> f.method,
                                 fuser |-> f.fuser, fpass |-> f.fpass,
                                 token |-> ""])
             /\ UNCHANGED last
    /\ UNCHANGED cfg
    /\ KeepApi /\ KeepAdmin /\ KeepEnc

\* the error of CheckPassword(c, username, password); ok: the store answered
CheckPasswordErr(u, pw, ok) ==
    IF ~WellFormed(pw) THEN "hex"
    ELSE IF ~ok THEN "store"
    ELSE IF u \notin DOMAIN admins THEN "nil"
    ELSE IF ~CompareHashAndPassword(admins[u], pw) THEN "mismatch"
    ELSE "none"

\* the login page after a failed CheckPassword: the form with the user name
\* that was typed and the message.  The variant tells a user without record
\* apart.
LoginFailureTelling(r, err) ==
    [kind |-> "login", status |-> IF err = "nil" THEN 404 ELSE 200,
     cookie |-> << >>, fuser |-> r.fuser,
     msg |-> IF err = "nil" THEN "no such user" ELSE "mismatch user or password"]

LoginFailure(r, err) ==
    [kind |-> "login", status |-> 200, cookie |-> << >>, fuser |-> r.fuser,
     msg |-> "mismatch user or password"]

\* Login, POST: CheckPassword (HGET user:<name> password)
LoginCheckPassword(r) ==
    /\ r.kind = "login" /\ r.pc = "checkPassword"
    /\ \E ok \in BOOLEAN :
        LET err == CheckPasswordErr(r.fuser, r.fpass, ok)
        IN  IF err = "none"
            THEN Step(r, [r EXCEPT !.pc = "setSession"])
            ELSE Finish(r, LoginFailure(r, err))
    /\ UNCHANGED <<cfg, started>>
    /\ KeepApi /\ KeepAdmin /\ KeepEnc

\* Login, POST: setSession (SADD session:<name> token) and the cookie
LoginSetSession(r) ==
    /\ r.kind = "login" /\ r.pc = "setSession"
    /\ minted < MaxTokens
    /\ minted' = minted + 1
    /\ \E ok \in BOOLEAN :
        IF ok
        THEN /\ sessions' = SAdd(sessions, r.fuser, SessTok(minted'))
             /\ Finish(r, [kind |-> "login", status |-> 302,
                           user |-> r.fuser,
                           cookie |-> CookieOf(r.fuser, SessTok(minted'))])
        ELSE /\ Finish(r, Done("login", 500))
             /\ UNCHANGED sessions
    /\ UNCHANGED <<cfg, started, csrf, admins, granted, logouts>>
    /\ KeepApi /\ KeepEnc

\* the dispatcher's Auth and the entry of Logout
LogoutStart(c) ==
    /\ FreeAdmin
    /\ started' = started + 1
    /\ \E ok \in BOOLEAN :
        IF AuthCtx(c, ok) = Anonymous
        THEN req' = req /\ last' = [kind |-> "logout", status |-> 302,
                                    cookie |-> << >>]
        ELSE /\ req' = Put(req, [kind |-> "logout", pc |-> "srem",
                                 user |-> AuthCtx(c, ok), cookie |-> c])
             /\ UNCHANGED last
    /\ UNCHANGED cfg
    /\ KeepApi /\ KeepAdmin /\ KeepEnc

\* Logout: SREM session:<name> token and the removal of the cookie
LogoutSRem(r) ==
    /\ r.kind = "logout" /\ r.pc = "srem"
    /\ \E ok \in BOOLEAN :
        IF ok
        THEN /\ sessions' = SRem(sessions, r.user, TokenPart(r.cookie))
             /\ logouts' = logouts \cup {r.cookie}
             /\ Finish(r, [kind |-> "logout", status |-> 302, cookie |-> << >>])
        ELSE /\ Finish(r, Done("logout", 500))
             /\ UNCHANGED <<sessions, logouts>>
    /\ UNCHANGED <<cfg, started, csrf, minted, admins, granted>>
    /\ KeepApi /\ KeepEnc

\* HSET user:<name> password <hash>.  The variant keeps an existing field
\* (HSETNX).
HSetKeep(m, k, v) ==
    IF k \in DOMAIN m THEN m ELSE (k :> v) @@ m

HSet(m, k, v) ==
    (k :> v) @@ m

\* the user names given to lruss -adminpass; any non-empty string is taken
CliUsers ==
    {<<"admin">>, <<"a", Sep, "b">>}

\* a variant of CreateOrUpdate that closes the sessions of the user
CreateOrUpdateClosing(u) ==
    /\ FreeAdmin
    /\ started' = started + 1
    /\ minted < MaxTokens
    /\ minted' = minted + 1
    /\ \E ok \in BOOLEAN :
        IF ok
        THEN /\ admins' = HSet(admins, u, Bcrypt(Passwd(minted')))
             /\ sessions' = [x \in DOMAIN sessions \ {u} |-> sessions[x]]
             /\ last' = [kind |-> "createOrUpdate", status |-> 0, user |-> u,
                         password |-> Passwd(minted'),
                         created |-> u \notin DOMAIN admins]
        ELSE /\ last' = [kind |-> "createOrUpdate", status |-> 1, user |-> u,
                         password |-> "", created |-> FALSE]
             /\ UNCHANGED <<admins, sessions>>
    /\ UNCHANGED <<cfg, req, csrf, granted, logouts>>
    /\ KeepApi /\ KeepEnc

\* CreateOrUpdate: a random password, its bcrypt hash, HSET; the password is
\* printed with the flag created; status is the exit status of the program
CreateOrUpdate(u) ==
    /\ FreeAdmin
    /\ started' = started + 1
    /\ minted < MaxTokens
    /\ minted' = minted + 1
    /\ \E ok \in BOOLEAN :
        IF ok
        THEN /\ admins' = HSet(admins, u, Bcrypt(Passwd(minted')))
             /\ last' = [kind |-> "createOrUpdate", status |-> 0, user |-> u,
                         password |-> Passwd(minted'),
                         created |-> u \notin DOMAIN admins]
        ELSE /\ last' = [kind |-> "createOrUpdate", status |-> 1, user |-> u,
                         password |-> "", created |-> FALSE]
             /\ UNCHANGED admins
    /\ UNCHANGED <<cfg, req, csrf, sessions, granted, logouts>>
    /\ KeepApi /\ KeepEnc

\* the login forms filled in with a password the program has printed or a
\* string of the same shape
UserForms ==
    {[method |-> "POST", fuser |-> u, fpass |-> Passwd(k)] :
        u \in CliUsers, k \in 1..minted}

\* the cookies of the open sessions
SessionCookies ==
    {CookieOf(p[1], p[2]) : p \in SessionPairs}

----------------------------------------------------------------------------
(* admin: Export *)

\* urlPrefix = len("url:")
urlPrefix ==
    Len(Url3 \o <<":">>)

\* key[urlPrefix:]
ShortOf(key) ==
    SubSeq(key, urlPrefix + 1, Len(key))

\* KEYS url:* : the keys of the links in the store
UrlKeys ==
    {dbKey(Url3, code).key : code \in DOMAIN urls}

\* a variant of Less: the order of the strings
RECURSIVE LessLex(_, _)
LessLex(a, b) ==
    IF ShortOf(b) = << >> THEN FALSE
    ELSE IF ShortOf(a) = << >> THEN TRUE
    ELSE IF Head(ShortOf(a)) # Head(ShortOf(b))
    THEN AlphabetIndex(Head(ShortOf(a))) < AlphabetIndex(Head(ShortOf(b)))
    ELSE LessLex(Url3 \o <<":">> \o Tail(ShortOf(a)),
                 Url3 \o <<":">> \o Tail(ShortOf(b)))

\* shortURLs.Less: the decoded numbers are compared, an error of Decode is
\* not looked at
Less(a, b) ==
    Decode(ShortOf(a)).n < Decode(ShortOf(b)).n

\* sort.Sort(shortURLs(keys)): the keys in an order in which no key is Less
\* than a key before it
RECURSIVE SortKeys(_)
SortKeys(keys) ==
    IF keys = {} THEN << >>
    ELSE LET first == CHOOSE k \in keys : \A k2 \in keys : ~Less(k2, k)
         IN  <<first>> \o SortKeys(keys \ {first})

\* cfg.ShortURL(short): fmt.Sprintf("%v/%v", c.Site, short)
ShortURL(short) ==
    <<"site", "/">> \o short

\* Export: KEYS url:*, the sort, and the header row of the CSV data
ExportStart ==
    /\ Free
    /\ started' = started + 1
    /\ \E ok \in BOOLEAN :
        IF ok
        THEN /\ req' = Put(req, [kind |-> "export", pc |-> "rows",
                                 keys |-> SortKeys(UrlKeys),
                                 header |-> <<"short", "origin">>,
                                 rows |-> << >>])
             /\ UNCHANGED last
        ELSE req' = req /\ last' = Done("export", 500)
    /\ UNCHANGED cfg
    /\ KeepApi /\ KeepAdmin /\ KeepEnc

\* Export: GET of the next key and its row; after the last row the data is
\* flushed
ExportRow(r) ==
    /\ r.kind = "export" /\ r.pc = "rows"
    /\ \E ok \in BOOLEAN :
        IF Len(r.rows) = Len(r.keys)
        THEN Finish(r, [kind |-> "export", status |-> IF ok THEN 200 ELSE 500,
                        keys |-> r.keys, header |-> r.header,
                        rows |-> r.rows])
        ELSE LET key == r.keys[Len(r.rows) + 1]
             IN  IF ok /\ ShortOf(key) \in DOMAIN urls
                 THEN Step(r, [r EXCEPT !.rows = Append(@,
                                  [short |-> ShortURL(ShortOf(key)),
                                   origin |-> urls[ShortOf(key)]])])
                 ELSE Finish(r, [kind |-> "export", status |-> 500,
                                 keys |-> r.keys, header |-> r.header,
                                 rows |-> r.rows])
    /\ UNCHANGED <<cfg, started>>
    /\ KeepApi /\ KeepAdmin /\ KeepEnc

----------------------------------------------------------------------------
(* the dispatcher of main: method, Auth, CSRF check, handler *)

\* the registered paths with their method and AuthRequired flag; the index
\* page and the static files are left out
Paths ==
    {"api/add", "admin/login", "admin/logout", "admin/index"}

HandlerMethod(path) ==
    IF path = "admin/logout" THEN "POST"
    ELSE IF path = "admin/index" THEN "GET" ELSE "ANY"

\* The variant registers no path as requiring authentication.
AuthRequiredNone(path) ==
    FALSE

AuthRequired(path) ==
    path = "admin/index"

FreeDisp ==
    BagCardinality(req) < NumProcs /\ started < MaxDispReqs

\* the requests of the model: path, method, session cookie and form values
\* (csrftoken; user and password for login; url for api/add)
NoForm ==
    [fuser |-> << >>, fpass |-> "", raw |-> NoURL]

FormsOf(path, method) ==
    IF path = "admin/login" /\ method = "POST"
    THEN {[fuser |-> <<"admin">>, fpass |-> pw, raw |-> NoURL] :
             pw \in {PasswordOf(<<"admin">>), "zz"}}
    ELSE IF path = "api/add"
    THEN {[fuser |-> << >>, fpass |-> "", raw |-> raw] :
             raw \in {[scheme |-> "", rest |-> "not-a-url"],
                      [scheme |-> "https", rest |-> "//example.com/a"]}}
    ELSE {NoForm}

\* the csrftoken values clients send: the tokens they were given, the
\* string of CheckCSRF for a missing token, and some other string
TokensOf(method) ==
    IF method = "POST"
    THEN {g.tok : g \in granted} \cup {NotFound, BadToken}
    ELSE {""}

\* the status the client gets: the deferred function calls http.Error with
\* code when the err of the handler function is set; otherwise the status is
\* the one already written, 200 when nothing was written
SentStatus(code, err) ==
    IF err THEN code ELSE 200

\* the result of Auth for the cookie value c; ok: the store answered.  The
\* cookie is kept with a request that goes on only when Auth succeeded: the
\* handlers read it again only for an authenticated user (Logout).
AuthResult(c, ok) ==
    [user |-> AuthCtx(c, ok), err |-> ~(ok /\ AuthOK(c)),
     cookie |-> IF ok /\ AuthOK(c) THEN c ELSE << >>]

After(q, a) ==
    [q EXCEPT !.cookie = a.cookie]

\* handler.Func(ctx, w, r) up to its first round trip; b holds the other
\* requests in flight
Invoke(q, a, b) ==
    IF q.path = "admin/index"
    THEN /\ req' = Put(b, [kind |-> "index", pc |-> "csrfGet", user |-> a.user,
                           method |-> q.method, token |-> "", auth |-> a])
         /\ UNCHANGED last
    ELSE IF q.path = "admin/login"
    THEN IF a.user # Anonymous
         THEN req' = b /\ last' = [kind |-> "login", status |-> 302,
                                   cookie |-> << >>, auth |-> a]
         ELSE /\ req' = Put(b, [kind |-> "login", pc |-> "csrfGet",
                                user |-> Anonymous, method |-> q.method,
                                fuser |-> q.form.fuser, fpass |-> q.form.fpass,
                                token |-> "", auth |-> a])
              /\ UNCHANGED last
    ELSE IF q.path = "admin/logout"
    THEN IF a.user = Anonymous
         THEN req' = b /\ last' = [kind |-> "logout", status |-> 302,
                                   cookie |-> << >>, auth |-> a]
         ELSE /\ req' = Put(b, [kind |-> "logout", pc |-> "srem",
                                user |-> a.user, cookie |-> q.cookie,
                                auth |-> a])
              /\ UNCHANGED last
    ELSE IF q.form.raw.rest = "" \/ ~ParseOK(q.form.raw) \/ ~IsAbs(q.form.raw)
         THEN req' = b /\ last' = [kind |-> "api", status |-> 400,
                                   raw |-> q.form.raw, auth |-> a]
         ELSE /\ req' = Put(b, [kind |-> "api", raw |-> q.form.raw,
                                url |-> URLString(q.form.raw),
                                key |-> ClientKey("10.0.0.1", "curl"),
                                rate |-> 0, short |-> << >>,
                                pc |-> IF cfg.active THEN "rateIncr"
                                       ELSE "countIncr",
                                auth |-> a])
              /\ UNCHANGED last

\* the method check, Auth and the AuthRequired check; a request other than
\* POST goes on into its handler
Dispatch(q) ==
    /\ FreeDisp
    /\ started' = started + 1
    /\ IF q.method # HandlerMethod(q.path) /\ HandlerMethod(q.path) # "ANY"
       THEN req' = req /\ last' = [kind |-> "dispatch", path |-> q.path,
                                   code |-> 405, status |-> SentStatus(405, TRUE)]
       ELSE \E ok \in BOOLEAN :
              LET a == AuthResult(q.cookie, ok)
              IN  IF AuthRequired(q.path) /\ a.err
                  THEN req' = req /\ last' = [kind |-> "dispatch",
                                              path |-> q.path, code |-> 302,
                                              status |-> 302, auth |-> a,
                                              location |-> "/admin/login/",
                                              cookie |-> q.cookie]
                  ELSE IF q.method = "POST"
                  THEN /\ req' = Put(req, [kind |-> "dispatch",
                                           pc |-> "csrfCheck",
                                           q |-> After(q, a), auth |-> a])
                       /\ UNCHANGED last
                  ELSE Invoke(After(q, a), a, req)
    /\ UNCHANGED cfg
    /\ KeepApi /\ KeepAdmin /\ KeepEnc

\* POST: CheckCSRF for the user of the context, then the handler.  The err
\* assigned on the two failing paths is the one declared in the block by
\* isValid, err := ..., the deferred function reads the err of the handler
\* function, which is still nil.
DispatchCheckCSRF(r) ==
    /\ r.kind = "dispatch" /\ r.pc = "csrfCheck"
    /\ \E ok \in BOOLEAN :
        IF ~ok
        THEN Finish(r, [kind |-> "dispatch", path |-> r.q.path, code |-> 500,
                        status |-> SentStatus(500, FALSE)])
        ELSE IF ~CheckResult(r.auth.user, r.q.token)
        THEN Finish(r, [kind |-> "dispatch", path |-> r.q.path, code |-> 400,
                        status |-> SentStatus(400, FALSE)])
        ELSE Invoke(r.q, r.auth, Take(req, r))
    /\ UNCHANGED <<cfg, started>>
    /\ KeepApi /\ KeepAdmin /\ KeepEnc

\* Index after GetCSRF: the reads of the statistics and the page.
\* redis.Int64 of GET count:count gives redis.ErrNil while the key is absent;
\* err is the error the dispatcher logs.
IndexStats(r) ==
    /\ r.kind = "index" /\ r.pc = "indexStats"
    /\ \E ok \in BOOLEAN :
        IF ~ok
        THEN Finish(r, [kind |-> "index", status |-> 500, user |-> r.user,
                        err |-> "store", lastNum |-> 0, lastURL |-> << >>])
        ELSE IF count = 0
        THEN Finish(r, [kind |-> "index", status |-> 500, user |-> r.user,
                        err |-> "nil returned", lastNum |-> 0,
                        lastURL |-> << >>])
        ELSE Finish(r, [kind |-> "index", status |-> 200, user |-> r.user,
                        err |-> "none", lastNum |-> count,
                        lastURL |-> ShortURL(Encode(count))])
    /\ UNCHANGED <<cfg, started>>
    /\ KeepApi /\ KeepAdmin /\ KeepEnc

----------------------------------------------------------------------------
(* Initial states and specifications *)

RateCfgs ==
    { [active |-> FALSE, count |-> 0, interval |-> 0, checkUA |-> FALSE] }
    \cup
    { [active |-> TRUE, count |-> c, interval |-> RateInterval,
       checkUA |-> FALSE] : c \in 1..MaxRateCount }
    \cup
    { [active |-> TRUE, count |-> 1, interval |-> RateInterval,
       checkUA |-> TRUE] }

Flushed ==
    /\ count = 0
    /\ urls = Empty
    /\ hosts = Empty
    /\ passed = Empty
    /\ csrf = Empty
    /\ sessions = Empty
    /\ req = EmptyBag
    /\ last = Done("none", 0)
    /\ started = 0
    /\ minted = 0
    /\ granted = {}
    /\ responses = << >>
    /\ handed = << >>
    /\ logouts = {}
    /\ encOp = NoEnc

FreshStore ==
    /\ Flushed
    /\ admins = Empty

InitApi ==
    /\ cfg \in RateCfgs
    /\ FreshStore

NextApi ==
    \/ \E raw \in RawURLs, addr \in Addrs, ua \in Agents :
          HandleAPIStart(raw, addr, ua)
    \/ \E r \in BagToSet(req) : AllowedRateIncr(r)
    \/ \E r \in BagToSet(req) : AllowedRateExpire(r)
    \/ \E r \in BagToSet(req) : HandleAPIIncr(r)
    \/ \E r \in BagToSet(req) : HandleAPISet(r)
    \/ \E short \in ShortPaths : HandleRedirect(short)
    \/ Tick
    \/ \E r \in BagToSet(req) : Abandon(r)

SpecApi ==
    InitApi /\ [][NextApi]_vars

NoRate ==
    [active |-> FALSE, count |-> 0, interval |-> 0, checkUA |-> FALSE]

InitBase ==
    /\ cfg = NoRate
    /\ FreshStore

EncodeCall(x) ==
    /\ encOp = NoEnc
    /\ DoEncode(x)
    /\ UNCHANGED <<cfg, req, last, started>>
    /\ KeepApi /\ KeepAdmin

DecodeCall(s) ==
    /\ encOp = NoEnc
    /\ DoDecode(s)
    /\ UNCHANGED <<cfg, req, last, started>>
    /\ KeepApi /\ KeepAdmin

\* the caller has taken the result
EncReturn ==
    /\ encOp # NoEnc
    /\ encOp' = NoEnc
    /\ UNCHANGED <<cfg, req, last, started>>
    /\ KeepApi /\ KeepAdmin

NextEnc ==
    \/ \E x \in EncNums : EncodeCall(x)
    \/ \E s \in DecStrings : DecodeCall(s)
    \/ EncReturn

SpecEnc ==
    InitBase /\ [][NextEnc]_vars

\* the ids of the links in the store when an export begins: ids around the
\* places where the code gets longer
ExportIds ==
    {1, 2, 9, basis - 1, basis, basis + 1, basis * basis}

Greatest(S) ==
    IF S = {} THEN 0 ELSE CHOOSE n \in S : \A m \in S : m <= n

\* the URL stored for the id n
OriginOf(n) ==
    [scheme |-> "https", rest |-> "//example.com/" \o ToString(n)]

\* a store that holds the links of some ids handed out so far
InitExport ==
    /\ cfg = NoRate
    /\ \E ids \in SUBSET ExportIds :
          /\ Cardinality(ids) <= MaxLinks
          /\ count = Greatest(ids)
          /\ urls = [code \in {Encode(n) : n \in ids} |->
                        OriginOf(Decode(code).n)]
    /\ hosts = Empty /\ csrf = Empty /\ sessions = Empty /\ admins = Empty
    /\ passed = Empty
    /\ req = EmptyBag /\ last = Done("none", 0) /\ started = 0
    /\ minted = 0 /\ granted = {} /\ logouts = {}
    /\ responses = << >> /\ handed = << >> /\ encOp = NoEnc

NextExport ==
    \/ ExportStart
    \/ \E r \in BagToSet(req) : ExportRow(r)
    \/ HandleAPIStart([scheme |-> "https", rest |-> "//example.com/a"],
                      "10.0.0.1", "curl")
    \/ \E r \in BagToSet(req) : HandleAPIIncr(r)
    \/ \E r \in BagToSet(req) : HandleAPISet(r)
    \/ \E r \in BagToSet(req) : Abandon(r)

SpecExport ==
    InitExport /\ [][NextExport]_vars

NextKey ==
    \E prefix \in AskedPrefixes, value \in AskedValues : dbKeyCall(prefix, value)

SpecKey ==
    InitBase /\ [][NextKey]_vars

NextCsrf ==
    \/ \E u \in CtxUsers : GetCSRFStart(u)
    \/ \E r \in BagToSet(req) : GetCSRFGet(r)
    \/ \E r \in BagToSet(req) : GetCSRFSetNX(r)
    \/ \E r \in BagToSet(req) : GetCSRFExpire(r)
    \/ \E u \in CtxUsers, s \in SuppliedTokens : CheckCSRF(u, s)
    \/ Tick
    \/ \E r \in BagToSet(req) : Abandon(r)

SpecCsrf ==
    InitBase /\ [][NextCsrf]_vars

\* The session sets carry no expiry, so the passing of time changes nothing
\* they depend on; the expiry of the CSRF token is part of NextCsrf.
NextAdmin ==
    \/ \E c \in Cookies, f \in LoginForms : LoginStart(c, f)
    \/ \E r \in BagToSet(req) : GetCSRFGet(r)
    \/ \E r \in BagToSet(req) : GetCSRFSetNX(r)
    \/ \E r \in BagToSet(req) : GetCSRFExpire(r)
    \/ \E r \in BagToSet(req) : LoginCheckPassword(r)
    \/ \E r \in BagToSet(req) : LoginSetSession(r)
    \/ \E c \in Cookies : LogoutStart(c)
    \/ \E r \in BagToSet(req) : LogoutSRem(r)
    \/ \E r \in BagToSet(req) : Abandon(r)

\* the store after CreateOrUpdate (lruss -adminpass) has run for each user:
\* HSET user:<name> password <hash>
InitAdmin ==
    /\ cfg = NoRate
    /\ Flushed
    /\ admins = [u \in Usernames |-> Bcrypt(PasswordOf(u))]

SpecAdmin ==
    InitAdmin /\ [][NextAdmin]_vars


\* the store right after the first login of admin: the CSRF token of the
\* login form and the session of admin
InitDisp ==
    /\ cfg = NoRate
    /\ count = 0 /\ urls = Empty /\ hosts = Empty /\ passed = Empty
    /\ csrf = (Anonymous :> [val |-> CsrfTok(1), ttl |-> CSRFTimeout])
    /\ granted = {[user |-> Anonymous, tok |-> CsrfTok(1)]}
    /\ req = EmptyBag /\ last = Done("none", 0) /\ started = 0
    /\ responses = << >> /\ handed = << >>
    /\ logouts = {} /\ encOp = NoEnc
    /\ admins = [u \in Usernames |-> Bcrypt(PasswordOf(u))]
    /\ minted = 2
    /\ sessions = (<<"admin">> :> {SessTok(2)})

\* The dispatcher reads the session sets, which carry no expiry, and the CSRF
\* token through CheckCSRF; the expiry of that token is part of NextCsrf.
NextDisp ==
    \/ \E path \in Paths, method \in {"GET", "POST"}, c \in Cookies :
          \E t \in TokensOf(method), f \in FormsOf(path, method) :
             Dispatch([path |-> path, method |-> method, cookie |-> c,
                       token |-> t, form |-> f])
    \/ \E r \in BagToSet(req) : DispatchCheckCSRF(r)
    \/ \E r \in BagToSet(req) : GetCSRFGet(r)
    \/ \E r \in BagToSet(req) : GetCSRFSetNX(r)
    \/ \E r \in BagToSet(req) : GetCSRFExpire(r)
    \/ \E r \in BagToSet(req) : IndexStats(r)
    \/ \E r \in BagToSet(req) : LoginCheckPassword(r)
    \/ \E r \in BagToSet(req) : LoginSetSession(r)
    \/ \E r \in BagToSet(req) : LogoutSRem(r)
    \/ \E r \in BagToSet(req) : HandleAPIIncr(r)
    \/ \E r \in BagToSet(req) : HandleAPISet(r)
    \/ \E short \in ShortPaths : HandleRedirect(short)
    \/ \E r \in BagToSet(req) : Abandon(r)

SpecDisp ==
    InitDisp /\ [][NextDisp]_vars

\* The administration of the users from the first run of lruss -adminpass
\* on; the session sets and the user records carry no expiry.
NextUsers ==
    \/ \E u \in CliUsers : CreateOrUpdate(u)
    \/ \E f \in UserForms : LoginStart(<< >>, f)
    \/ \E r \in BagToSet(req) : GetCSRFGet(r)
    \/ \E r \in BagToSet(req) : GetCSRFSetNX(r)
    \/ \E r \in BagToSet(req) : GetCSRFExpire(r)
    \/ \E r \in BagToSet(req) : LoginCheckPassword(r)
    \/ \E r \in BagToSet(req) : LoginSetSession(r)
    \/ \E c \in SessionCookies : LogoutStart(c)
    \/ \E r \in BagToSet(req) : LogoutSRem(r)
    \/ \E r \in BagToSet(req) : Abandon(r)

SpecUsers ==
    InitBase /\ [][NextUsers]_vars

----------------------------------------------------------------------------
(* The connection pool: redis.Pool with MaxActive = cfg.Redis.MaxCon and
   Wait = true.  Get blocks while MaxCon connections are in use; Close gives
   the connection back.  A request is the sequence of the acquisitions
   ("get") and releases ("put": the commands of the function and its
   deferred Close) that the dispatcher and the handler make for it. *)

MaxCon ==
    2

PoolCfgs ==
    { [maxCon |-> m] : m \in 1..MaxCon }

\* c := cfg.GetConn(); defer c.Close() around the commands of one function
OneConn ==
    <<"get", "put">>

GetCSRFConns ==
    OneConn

\* Login calls GetCSRF and takes its own connection afterwards.  The variant
\* takes the connection first and calls GetCSRF while holding it.
LoginConnsHolding ==
    <<"get">> \o GetCSRFConns \o <<"put">>

LoginConns ==
    GetCSRFConns \o OneConn

\* the dispatcher: Auth (with a session cookie) and, on POST, CheckCSRF take
\* one connection each, then the handler runs; Index calls GetCSRF and takes
\* its own connection afterwards; a short path goes to HandleRedirect, with
\* one connection.  Logout and HandleAPI, with one connection of their own
\* after Auth and CheckCSRF, take and give back connections in the pattern
\* of admin/index.
PoolRequests ==
    { [name |-> "admin/login",
       steps |-> OneConn \o OneConn \o LoginConns],
      [name |-> "admin/index",
       steps |-> OneConn \o GetCSRFConns \o OneConn],
      [name |-> "short",
       steps |-> OneConn] }

PoolReqs ==
    {r \in BagToSet(req) : r.kind = "pool"}

RECURSIVE HeldBy(_)
HeldBy(S) ==
    IF S = {} THEN 0
    ELSE LET r == CHOOSE x \in S : TRUE
         IN  r.held + HeldBy(S \ {r})

\* the connections of the pool that are in use
InUse ==
    HeldBy(PoolReqs)

\* a worker takes a request; w names the worker
PoolStart(w, p) ==
    /\ \A r \in PoolReqs : r.id # w
    /\ req' = Put(req, [kind |-> "pool", id |-> w, name |-> p.name,
                        steps |-> p.steps, held |-> 0])
    /\ UNCHANGED <<cfg, last, started>>
    /\ KeepApi /\ KeepAdmin /\ KeepEnc

\* pool.Get: waits until fewer than MaxCon connections are in use; when the
\* connection cannot be dialled the first command fails and the request ends
PoolGet(r) ==
    /\ r.kind = "pool" /\ r.steps # << >> /\ Head(r.steps) = "get"
    /\ InUse < cfg.maxCon
    /\ \E ok \in BOOLEAN :
        IF ok
        THEN Step(r, [r EXCEPT !.steps = Tail(r.steps), !.held = r.held + 1])
        ELSE Finish(r, Done("pool", 500))
    /\ UNCHANGED <<cfg, started>>
    /\ KeepApi /\ KeepAdmin /\ KeepEnc

\* the commands of the function that holds the connection and its deferred
\* Close; on an error the request ends and every deferred Close runs
PoolPut(r) ==
    /\ r.kind = "pool" /\ r.steps # << >> /\ Head(r.steps) = "put"
    /\ \E ok \in BOOLEAN :
        IF ok /\ Tail(r.steps) # << >>
        THEN Step(r, [r EXCEPT !.steps = Tail(r.steps), !.held = r.held - 1])
        ELSE Finish(r, Done("pool", IF ok THEN 200 ELSE 500))
    /\ UNCHANGED <<cfg, started>>
    /\ KeepApi /\ KeepAdmin /\ KeepEnc

InitPool ==
    /\ cfg \in PoolCfgs
    /\ FreshStore

NextPool ==
    \/ \E w \in 1..NumProcs, p \in PoolRequests : PoolStart(w, p)
    \/ \E r \in BagToSet(req) : PoolGet(r)
    \/ \E r \in BagToSet(req) : PoolPut(r)

SpecPool ==
    InitPool /\ [][NextPool]_vars

\* the goroutine of a request runs on when it can, and a request that waits
\* in pool.Get gets a connection when connections keep coming back
SpecPoolLive ==
    /\ SpecPool
    /\ \A w \in 1..NumProcs :
          /\ WF_vars(\E r \in BagToSet(req) : r.id = w /\ PoolPut(r))
          /\ SF_vars(\E r \in BagToSet(req) : r.id = w /\ PoolGet(r))

----------------------------------------------------------------------------
(* The answer to a failed handler: what a handler returns, (code, err) and
   what it has written by then, and what the dispatcher sends for it *)

\* a nil error
NoErr ==
    ""

\* http.StatusText
StatusText(code) ==
    CASE code = 200 -> "OK"
      [] code = 302 -> "Found"
      [] code = 400 -> "Bad Request"
      [] code = 404 -> "Not Found"
      [] code = 405 -> "Method Not Allowed"
      [] code = 429 -> "Too Many Requests"
      [] code = 500 -> "Internal Server Error"
      [] code = 503 -> "Service Unavailable"
      [] OTHER -> ""

\* conf.HTTPError(status): status, errors.New(http.StatusText(status))
HTTPError(status) ==
    [code |-> status, err |-> StatusText(status)]

\* the messages of the errors a store command returns
StoreErrors ==
    {"dial tcp 127.0.0.1:6379: connect: connection refused",
     "read tcp 127.0.0.1:6379: i/o timeout",
     "redigo: nil returned",
     "WRONGTYPE Operation against a key holding the wrong kind of value"}

\* conf.GetContext without configuration
ContextErrors ==
    {"configuration not found"}

\* template.ParseFiles without the file
TemplateErrors ==
    {"open static/base.html: no such file or directory"}

\* an error of the writer, after a part of the answer has gone out
WriteErrors ==
    {"write tcp 10.0.0.1:8080: broken pipe"}

\* the messages of HandleAPI for a url it does not take
ValidationErrors ==
    {"not url", "invalid url", "not absolute url"}

\* return code, err with the answer unwritten (wrote = FALSE) or written in
\* part or in full
Ret(code, err, wrote) ==
    [code |-> code, err |-> err, wrote |-> wrote]

Fails(msgs) ==
    {Ret(500, e, FALSE) : e \in msgs}

FailsLate(msgs) ==
    {Ret(500, e, TRUE) : e \in msgs}

HandleAPIReturns ==
    Fails(ContextErrors)
    \cup {Ret(400, e, FALSE) : e \in ValidationErrors}
    \cup Fails(StoreErrors)
    \cup {Ret(429, HTTPError(429).err, FALSE),
          Ret(503, HTTPError(503).err, FALSE)}
    \cup FailsLate(WriteErrors)
    \cup {Ret(200, NoErr, TRUE)}

HandleRedirectReturns ==
    Fails(ContextErrors)
    \cup {Ret(503, HTTPError(503).err, FALSE),
          Ret(404, HTTPError(404).err, FALSE),
          Ret(302, NoErr, TRUE)}

HandleHTMLReturns ==
    Fails(ContextErrors \cup TemplateErrors \cup StoreErrors)
    \cup FailsLate(WriteErrors)
    \cup {Ret(200, NoErr, TRUE)}

LoginReturns ==
    Fails(ContextErrors \cup StoreErrors \cup TemplateErrors)
    \cup FailsLate(WriteErrors)
    \cup {Ret(302, NoErr, TRUE), Ret(200, NoErr, TRUE)}

LogoutReturns ==
    Fails(ContextErrors \cup StoreErrors)
    \cup {Ret(302, NoErr, TRUE)}

IndexReturns ==
    Fails(ContextErrors \cup StoreErrors \cup TemplateErrors)
    \cup FailsLate(WriteErrors)
    \cup {Ret(200, NoErr, TRUE)}

\* the handlers map; "short" stands for a path trim.IsShort takes
ReturnsOf(path) ==
    CASE path = "" -> HandleHTMLReturns
      [] path = "api/add" -> HandleAPIReturns
      [] path = "admin/login" -> LoginReturns
      [] path = "admin/logout" -> LogoutReturns
      [] path = "admin/index" -> IndexReturns
      [] path = "short" -> HandleRedirectReturns

ReplyPaths ==
    {"", "api/add", "admin/login", "admin/logout", "admin/index", "short"}

\* the err the dispatcher keeps for a handler that returned res.  The
\* variant keeps the handler's error as it is.
HandlerErrorRaw(path, res) ==
    res.err

HandlerError(path, res) ==
    IF res.err = NoErr THEN NoErr
    ELSE IF path = "short" \/ res.code # 400 THEN HTTPError(res.code).err
    ELSE res.err

\* the deferred function: http.Error(w, err.Error(), code) when err is set.
\* The body is what the handler wrote followed by the text of http.Error;
\* the status line cannot change once the handler has written.
SentBody(res, err) ==
    (IF res.wrote THEN <<"output">> ELSE << >>)
    \o (IF err # NoErr THEN <<err>> ELSE << >>)

\* the dispatcher from the method check on, for a request that passes Auth
\* and CheckCSRF: 405 with its status text for a method the handler does not
\* take, else the handler and the answer to what it returned
HandlerReturn(path, method, res) ==
    /\ FreeDisp
    /\ started' = started + 1
    /\ IF path # "short" /\ method # HandlerMethod(path)
          /\ HandlerMethod(path) # "ANY"
       THEN last' = [kind |-> "reply", path |-> path, method |-> method,
                     code |-> 405, err |-> NoErr, wrote |-> FALSE,
                     status |-> 405, body |-> <<HTTPError(405).err>>]
       ELSE last' = [kind |-> "reply", path |-> path, method |-> method,
                     code |-> res.code, err |-> res.err, wrote |-> res.wrote,
                     status |-> IF res.err # NoErr /\ res.wrote THEN 200
                                ELSE res.code,
                     body |-> SentBody(res, HandlerError(path, res))]
    /\ UNCHANGED <<cfg, req>>
    /\ KeepApi /\ KeepAdmin /\ KeepEnc

NextReply ==
    \E path \in ReplyPaths, method \in {"GET", "POST"} :
       \E res \in ReturnsOf(path) : HandlerReturn(path, method, res)

SpecReply ==
    InitBase /\ [][NextReply]_vars

----------------------------------------------------------------------------
(* Properties of the encoder *)

InAlphabet(ch) ==
    \E i \in 1..Len(Alphabet) : Alphabet[i] = ch

\* C3: decode(encode(n)) = (n, true) for every n of the range, and no other
\* number of the range has the same code.
C3_RoundTrip ==
    encOp.op = "encode" =>
        /\ Decode(encOp.code) = [n |-> encOp.n, ok |-> TRUE]
        /\ \A m \in EncNums : Encode(m) = encOp.code => m = encOp.n

\* a number with a three-digit code whose middle digit is zero was encoded
C3_Witness ==
    /\ encOp.op = "encode"
    /\ encOp.n = basis * basis + 1
    /\ encOp.code = <<"1", "0", "1">>

\* C4: a string with a character outside the alphabet is rejected by decode
\* (ok = false), whatever its other characters are.
C4_RejectsForeign ==
    (encOp.op = "decode"
       /\ \E i \in 1..Len(encOp.code) : ~InAlphabet(encOp.code[i]))
    => (~encOp.ok /\ encOp.n = 0)

\* a string whose first and last characters are digits of the alphabet and
\* whose middle character is not was decoded
C4_Witness ==
    /\ encOp.op = "decode"
    /\ encOp.code = <<"A", "-", "z">>

----------------------------------------------------------------------------
(* Properties of the keys *)

\* the closed set of prefixes
FixedPrefixes ==
    {Count5, Host4, Tpl3, Url3, Session7, Csrf4, User4}

----------------------------------------------------------------------------
(* Properties of the allocator and the resolver *)

DistinctCodes ==
    \A i, j \in 1..Len(responses) :
        i # j => responses[i].short # responses[j].short

\* C1 as stated: the codes returned to concurrent shorten requests are
\* pairwise distinct and each returned code resolves to exactly the URL
\* string its request submitted.
C1_ResolvesSubmitted ==
    /\ DistinctCodes
    /\ \A i \in 1..Len(responses) :
          Lookup(responses[i].short) =
              [status |-> 302, location |-> responses[i].raw]

\* C1: the codes returned to concurrent shorten requests are pairwise
\* distinct and each returned code resolves to the URL of its request as
\* re-serialised by url.Parse and URL.String (the url field of the response),
\* which is the submitted string itself when that is already in this form.
C1_ResolvesParsed ==
    /\ DistinctCodes
    /\ \A i \in 1..Len(responses) :
          /\ Lookup(responses[i].short) =
                 [status |-> 302, location |-> responses[i].url]
          /\ responses[i].url = URLString(responses[i].raw)
          /\ (responses[i].raw.scheme = ToLower(responses[i].raw.scheme)
                 => Lookup(responses[i].short).location = responses[i].raw)

\* two shorten requests overlapped and answered in the reverse order of
\* their ids, for different URLs
C1_Witness ==
    /\ Len(responses) = 2
    /\ responses[1].short = Encode(2)
    /\ responses[2].short = Encode(1)
    /\ responses[1].raw # responses[2].raw

HandedDistinct ==
    \A i, j \in 1..Len(handed) : i # j => handed[i] # handed[j]

\* C2: the Counter never decreases, every successful allocation raises it by
\* exactly one, no id is handed to two requests, and on a fresh store the
\* first allocation obtains id 1.
C2_Counter ==
    /\ [](HandedDistinct /\ (Len(handed) > 0 => handed[1] = 1))
    /\ [][ /\ count' >= count
           /\ (Len(handed') > Len(handed) =>
                  count' = count + 1 /\ handed'[Len(handed')] = count') ]_vars

\* two allocations happened, the first on a fresh store, the two requests
\* overlapped, and the second id was lost after the increment
C2_Witness ==
    /\ handed = <<1, 2>>
    /\ count = 2
    /\ Len(responses) = 1
    /\ responses[1].short = Encode(1)
    /\ req = EmptyBag
    /\ last = Done("api", 503)

----------------------------------------------------------------------------
(* Properties of the resolver *)

\* a call of HandleRedirect, which takes one round trip
RedirectStep ==
    started' = started + 1 /\ req' = req /\ last'.kind = "redirect"

\* C11: HandleRedirect answers 404 for a code without url:<code> entry and
\* 302 with exactly the stored URL for a code with an entry, and it leaves
\* the store as it is.
C11_Resolves ==
    [][ RedirectStep =>
           /\ UNCHANGED <<count, urls, hosts, csrf, sessions, admins>>
           /\ last'.reply # "error" =>
                 IF last'.short \in DOMAIN urls
                 THEN /\ last'.status = 302
                      /\ last'.location = urls[last'.short]
                 ELSE last'.status = 404 /\ last'.location = NoURL
      ]_vars

\* a stored code was resolved to its URL
C11_Witness ==
    /\ last.kind = "redirect" /\ last.status = 302
    /\ last.short = Encode(1)
    /\ last.short \in DOMAIN urls
    /\ last.location = urls[last.short]
    /\ last.location.scheme = "https"

\* C12: an absent key always gives 404 and any other failure of the lookup
\* always gives 503, never the other way round.
C12_FailuresApart ==
    last.kind = "redirect" =>
        /\ last.reply = "nil" <=> last.status = 404
        /\ last.reply = "error" <=> last.status = 503

\* the lookup failed while the requested code is stored
C12_Witness ==
    /\ last.kind = "redirect" /\ last.reply = "error" /\ last.status = 503
    /\ last.short \in DOMAIN urls

----------------------------------------------------------------------------
(* Properties of the shorten request *)

\* the url parameter is empty, unparsable or a relative reference
Invalid(raw) ==
    raw.rest = "" \/ raw.rest = "//x/%zz" \/ raw.scheme = ""

\* HandleAPI returns at once, before its first round trip
ApiRejectStep ==
    started' = started + 1 /\ req' = req /\ last'.kind = "api"

\* the request r ends in this step
Ends(r) ==
    r.kind = "api" /\ CopiesIn(r, req') < CopiesIn(r, req)

\* allowedRate of r incremented the RateCounter and rejects
RateRejects(r) ==
    /\ Ends(r) /\ r.pc = "rateIncr"
    /\ hosts' # hosts
    /\ hosts'[r.key].n # 1 /\ hosts'[r.key].n >= cfg.count

\* C13: a shorten request with an empty, unparsable or relative url ends
\* with 400 before any store operation: Counter, mappings and RateCounters
\* are unchanged, and no such request gets past the validation.
C13_InvalidRejected ==
    /\ [](\A r \in BagToSet(req) : r.kind = "api" => ~Invalid(r.raw))
    /\ [][ ApiRejectStep =>
              /\ last'.status = 400 /\ Invalid(last'.raw)
              /\ UNCHANGED <<count, urls, hosts>>
         ]_vars

\* not-a-url was refused after an allocation, with a RateCounter in the store
C13_Witness ==
    /\ last.kind = "api" /\ last.status = 400
    /\ last.raw = [scheme |-> "", rest |-> "not-a-url"]
    /\ count = 1
    /\ DOMAIN hosts # {}

\* C14: when allowedRate rejects the client, HandleAPI ends with 429, the
\* Counter is not incremented and no mapping is written.
C14_RejectedKeepsCounter ==
    [][ \A r \in BagToSet(req) :
           RateRejects(r) =>
              /\ last' = Done("api", 429)
              /\ UNCHANGED <<count, urls, handed>>
      ]_vars

\* a client was rejected after its allowed request got its code
C14_Witness ==
    /\ last = Done("api", 429)
    /\ count = 1
    /\ Len(responses) = 1

\* C15 as stated: a request rejected by the validation or by the rate
\* limiter leaves Counter, mappings and RateCounters with their expiry as
\* they were.
C15_RejectedNoEffect ==
    [][ (ApiRejectStep \/ \E r \in BagToSet(req) : RateRejects(r))
           => UNCHANGED <<count, urls, hosts>> ]_vars

\* C15: a request rejected by the validation leaves the store as it was; a
\* request rejected by the rate limiter leaves Counter and mappings as they
\* were and has raised the RateCounter of its client by one, keeping the
\* expiry of that counter and every other RateCounter.
C15_RejectedEffect ==
    /\ [](\A r \in BagToSet(req) : r.kind = "api" => ~Invalid(r.raw))
    /\ [][ ApiRejectStep => UNCHANGED <<count, urls, hosts>> ]_vars
    /\ [][ \A r \in BagToSet(req) :
              RateRejects(r) =>
                 /\ UNCHANGED <<count, urls>>
                 /\ r.key \in DOMAIN hosts
                 /\ hosts' = [hosts EXCEPT ![r.key].n = @ + 1]
         ]_vars

\* a rejected request left its mark on a RateCounter that is running out
C15_Witness ==
    /\ last = Done("api", 429)
    /\ \E k \in DOMAIN hosts : hosts[k].n = 2 /\ hosts[k].ttl > 0

\* the id of r is lost in this step: r ends after the increment without
\* having written its mapping
LosesId(r) ==
    Ends(r) /\ r.pc = "urlSet" /\ r.short \notin DOMAIN urls'

\* an id that was handed out and has neither a mapping nor a request
\* that is about to write it
Lost(n) ==
    /\ Encode(n) \notin DOMAIN urls
    /\ \A r \in BagToSet(req) : r.kind = "api" => r.short # Encode(n)

\* what no answer can take back: the Counter stays, a lost id stays without
\* mapping, and no id is handed out twice
LostForGood ==
    /\ [][ \A r \in BagToSet(req) : LosesId(r) => count' = count ]_vars
    /\ [][ \A i \in 1..Len(handed) :
              Lost(handed[i]) => Encode(handed[i]) \notin DOMAIN urls' ]_vars
    /\ [](HandedDistinct)

\* C16 as stated: a request whose SET fails, or that is abandoned before
\* it, fails with 503; the Counter keeps its value, the id has no mapping
\* and is never handed out again.
C16_LostIdUnavailable ==
    /\ [][ \A r \in BagToSet(req) : LosesId(r) => last'.status = 503 ]_vars
    /\ LostForGood

\* C16: a request whose SET fails is answered with 503 and a request
\* abandoned before it is not answered at all; in both cases the Counter
\* keeps its value, the id has no mapping and is never handed out again.
C16_LostId ==
    /\ [][ \A r \in BagToSet(req) :
              LosesId(r) => last' \in {Done("api", 503), Done("api", 0)} ]_vars
    /\ LostForGood

\* the first id was lost and the next request got the second one
C16_Witness ==
    /\ handed = <<1, 2>>
    /\ Encode(1) \notin DOMAIN urls
    /\ Encode(2) \in DOMAIN urls
    /\ req = EmptyBag
    /\ last = Done("api", 200)

\* C17: every shorten request ends with 200, 400, 429 or 503 (or is lost
\* without answer); a failed store operation gives 503.
C17_Outcomes ==
    last.kind = "api" => last.status \in {0, 200, 400, 429, 503}

----------------------------------------------------------------------------
(* Properties of the rate limiter *)

\* C5: the (limit+1)-th request of a client in one window is not allowed,
\* and every RateCounter carries an expiry (or the request that created it
\* is about to set it), so that the window elapses and the client is allowed
\* again: no client is locked out forever.
C5_WindowElapses ==
    /\ \A r \in BagToSet(req) :
          (r.kind = "api" /\ r.pc \in {"countIncr", "urlSet"} /\ cfg.active)
             => r.rate <= cfg.count
    /\ \A k \in DOMAIN hosts :
          \/ hosts[k].ttl > 0
          \/ \E r \in BagToSet(req) :
                r.kind = "api" /\ r.pc = "rateExpire" /\ r.key = k

\* the INCR of allowedRate for the request r was answered
RateStep(r) ==
    /\ r.kind = "api" /\ r.pc = "rateIncr"
    /\ CopiesIn(r, req') < CopiesIn(r, req)
    /\ hosts' # hosts

\* the EXPIRE of allowedRate for the request r was answered
ExpireStep(r) ==
    /\ r.kind = "api" /\ r.pc = "rateExpire"
    /\ CopiesIn(r, req') < CopiesIn(r, req)
    /\ hosts' # hosts

\* the RateCounter of the key k before a step, 0 for none
CountOf(k) ==
    IF k \in DOMAIN hosts THEN hosts[k].n ELSE 0

\* C29: every answered call of allowedRate raises the RateCounter of its
\* client by one and leaves the expiry as it is; with the new count c the
\* request goes on to EXPIRE when c = 1, is let pass when c # 1 and
\* c < limit, and is rejected with 429 otherwise; the expiry of a counter is
\* set to the interval, by the request that got c = 1 and by no other step.
C29_RateDecision ==
    /\ [](\A r \in BagToSet(req) :
            (r.kind = "api" /\ r.pc = "rateExpire") => r.rate = 1)
    /\ [][\A r \in BagToSet(req) :
            RateStep(r) =>
               LET c == hosts'[r.key].n
               IN  /\ c = CountOf(r.key) + 1
                   /\ hosts'[r.key].ttl = HostTTL(r.key)
                   /\ \A k \in DOMAIN hosts : k # r.key => hosts'[k] = hosts[k]
                   /\ c = 1 =>
                        /\ req' = Put(Take(req, r),
                                [r EXCEPT !.pc = "rateExpire", !.rate = 1])
                        /\ passed' = passed
                   /\ (c # 1 /\ c < cfg.count) =>
                        /\ req' = Put(Take(req, r),
                                [r EXCEPT !.pc = "countIncr", !.rate = c])
                        /\ passed' = Pass(r.key)
                   /\ (c # 1 /\ c >= cfg.count) =>
                        /\ req' = Take(req, r)
                        /\ last' = Done("api", 429)
                        /\ passed' = passed]_vars
    /\ [][\A r \in BagToSet(req) :
            ExpireStep(r) =>
               /\ hosts' = [hosts EXCEPT ![r.key].ttl = cfg.interval]
               /\ req' = Put(Take(req, r), [r EXCEPT !.pc = "countIncr"])
               /\ passed' = Pass(r.key)]_vars
    /\ [][\A k \in DOMAIN hosts :
            (k \in DOMAIN hosts' /\ hosts'[k].ttl > hosts[k].ttl) =>
               /\ hosts[k].ttl = 0
               /\ \E r \in BagToSet(req) : ExpireStep(r) /\ r.key = k]_vars

\* a second request of a client was let pass on the count 2, below the
\* limit, after the first one had set the expiry
C29_Witness ==
    /\ cfg.count = 3
    /\ \E k \in DOMAIN hosts :
          /\ hosts[k].n = 2 /\ hosts[k].ttl > 0
          /\ PassedOf(k).life = 2
    /\ \E r \in BagToSet(req) : r.kind = "api" /\ r.rate = 2

\* C30: of the requests of one client key, at most 2*limit - 1 are let pass
\* within any interval of the length of the window, and at most limit
\* during the life of one RateCounter.
C30_Burst ==
    cfg.active =>
        \A k \in DOMAIN passed :
            /\ Len(passed[k].ages) <= 2 * cfg.count - 1
            /\ passed[k].life <= cfg.count

\* with the limit 1 a request was refused while the one that was let pass
\* is still inside the window
C30_Witness ==
    /\ cfg.active /\ cfg.count = 1
    /\ last = Done("api", 429)
    /\ \E k \in DOMAIN passed :
          passed[k].life = 1 /\ Len(passed[k].ages) = 1

----------------------------------------------------------------------------
(* Properties of the CSRF tokens *)

\* a call of CheckCSRF, which takes one round trip
CheckStep ==
    started' = started + 1 /\ req' = req /\ last'.kind = "checkcsrf"

\* C6: while a token is stored for a user, CheckCSRF(u, s) answers true
\* exactly when s is the stored token of u; a token handed to another user
\* is refused.
C6_MatchesStored ==
    [][ (CheckStep /\ last'.status = 200 /\ last'.user \in DOMAIN csrf) =>
           /\ last'.valid <=> (last'.token = csrf[last'.user].val)
           /\ \A g \in granted :
                 (g.user # last'.user /\ g.tok = last'.token) => ~last'.valid
      ]_vars

\* the stored token of a user was accepted while another user holds a
\* stored token of their own
C6_Witness ==
    /\ last.kind = "checkcsrf" /\ last.status = 200 /\ last.valid
    /\ last.user \in DOMAIN csrf
    /\ csrf[last.user].val = last.token
    /\ \E v \in DOMAIN csrf : v # last.user /\ csrf[v].val # last.token

\* C7: when no token is stored for the user, CheckCSRF answers false for
\* every supplied string.
C7_AbsentRejects ==
    (last.kind = "checkcsrf" /\ last.status = 200 /\ ~last.found)
        => ~last.valid

\* C8: every token GetCSRF returned for a user is accepted by CheckCSRF for
\* that user until it expires, also when several calls of GetCSRF for the
\* user overlap while none is stored.
C8_GrantedAccepted ==
    \A g \in granted : CheckResult(g.user, g.tok)

\* C23: a stored CSRF token carries an expiry, except while the request
\* that stored it is still on its way to EXPIRE; also after a failed or an
\* abandoned request.
C23_StoredExpires ==
    \A u \in DOMAIN csrf :
        \/ csrf[u].ttl > 0
        \/ \E r \in BagToSet(req) : r.pc = "csrfExpire" /\ r.user = u

----------------------------------------------------------------------------
(* Properties of the sessions *)

\* C9: after Logout of the session u::t, Auth fails for that cookie from
\* then on, and the step that removes it leaves every other session token,
\* of the same user and of other users, in place.
C9_LogoutRevokes ==
    /\ [](\A c \in logouts : ~AuthOK(c))
    /\ [][ \A c \in logouts' \ logouts :
              \A p \in SessionPairs :
                 CookieOf(p[1], p[2]) # c => SIsMember(sessions', p[1], p[2])
         ]_vars

\* a session was logged out while the same user keeps another session
C9_Witness ==
    /\ last.kind = "logout" /\ last.status = 302
    /\ \E c \in logouts :
          /\ UserPart(c) \in DOMAIN sessions
          /\ \E t \in sessions[UserPart(c)] : AuthOK(CookieOf(UserPart(c), t))

\* C10: a step of Login removes no session token; it adds at most one, the
\* token of the cookie it sets, and Auth succeeds for that cookie.
C10_LoginOnlyAdds ==
    [][ \A r \in BagToSet(req) :
           (r.kind = "login" /\ CopiesIn(r, req') < CopiesIn(r, req)) =>
              /\ SessionPairs \subseteq SessionPairs'
              /\ Cardinality(SessionPairs' \ SessionPairs) <= 1
              /\ (r.pc = "setSession" /\ last'.status = 302) =>
                    /\ SessionPairs' \ SessionPairs =
                          {<<r.fuser, TokenPart(last'.cookie)>>}
                    /\ UserPart(last'.cookie) = r.fuser
                    /\ SIsMember(sessions', r.fuser, TokenPart(last'.cookie))
      ]_vars

\* a second login of a user succeeded while the first session is open
C10_Witness ==
    /\ last.kind = "login" /\ last.status = 302 /\ HasSep(last.cookie)
    /\ AuthOK(last.cookie)
    /\ Cardinality(sessions[UserPart(last.cookie)]) = 2

----------------------------------------------------------------------------
(* Properties of the dispatcher *)

\* the dispatcher takes up a request for a registered path
DispatchStep ==
    /\ started' = started + 1
    /\ ~(req' = req /\ last'.kind = "redirect")

\* the request as it goes on after the step that took it up
Entered ==
    CHOOSE r \in BagToSet(req') : CopiesIn(r, req') > CopiesIn(r, req)

\* the cookie value c, split at the first "::", names a member of the
\* session set of its user
Member(c) ==
    /\ \E i \in 1..Len(c) : c[i] = "::"
    /\ LET i == CHOOSE j \in 1..Len(c) :
                   c[j] = "::" /\ \A k \in 1..(j - 1) : c[k] # "::"
           u == SubSeq(c, 1, i - 1)
           t == SubSeq(c, i + 1, Len(c))
       IN  u \in DOMAIN sessions /\ t \in sessions[u]

\* the user a cookie value names
Named(c) ==
    SubSeq(c, 1, (CHOOSE j \in 1..Len(c) :
                     c[j] = "::" /\ \A k \in 1..(j - 1) : c[k] # "::") - 1)

LeavesCheck(r) ==
    /\ r.kind = "dispatch" /\ r.pc = "csrfCheck"
    /\ CopiesIn(r, req') < CopiesIn(r, req)

\* C19: a POST request whose token CheckCSRF does not accept for the user
\* Auth found ends with 400 and its handler is not invoked (the request may
\* also fail on the store or be lost without answer).
C19_GateBeforeHandler ==
    [][ \A r \in BagToSet(req) :
           (LeavesCheck(r) /\ r.q.token # StoredCSRF(r.auth.user)) =>
              /\ req' = Take(req, r)
              /\ last'.kind = "dispatch"
              /\ \/ last'.status = 0
                 \/ last'.code = 500
                 \/ last'.code = 400 /\ last'.status = 400
      ]_vars

\* the request was taken up by Auth and the AuthRequired check
Authed ==
    /\ DispatchStep
    /\ req' = req => (last'.kind = "dispatch" => last'.code # 405)

AuthOf ==
    IF req' = req THEN last'.auth ELSE Entered.auth

\* C20: Auth puts a user other than Anonymous into the context only if the
\* cookie value split at the first "::" is (u, t) with t a member of the
\* session set of u at that time; in every other case the request stays
\* Anonymous and Auth returns an error.
C20_AuthBySession ==
    [][ Authed =>
           /\ AuthOf.user # Anonymous <=> ~AuthOf.err
           /\ ~AuthOf.err =>
                 /\ Member(AuthOf.cookie)
                 /\ AuthOf.user = Named(AuthOf.cookie)
           /\ (req' = req /\ last'.kind = "dispatch") =>
                 (~Member(last'.cookie) => last'.auth.err)
      ]_vars

\* a cookie without separator left its request Anonymous, and the session
\* cookie of admin put admin into the context of a POST request
C20_Witness ==
    /\ last.kind = "dispatch" /\ last.status = 302
    /\ last.cookie = <<"admin">> /\ last.auth.user = Anonymous
    /\ \E r \in BagToSet(req) :
          /\ r.kind = "dispatch" /\ r.q.path = "admin/logout"
          /\ r.auth.user = <<"admin">> /\ ~r.auth.err

----------------------------------------------------------------------------
(* Properties of the short links *)

\* C22: a link once written keeps its URL and is never deleted, whatever
\* request or step of a request follows: shorten, resolve, login, logout,
\* CSRF or index.
C22_LinkImmutable ==
    [][\A k \in DOMAIN urls : k \in DOMAIN urls' /\ urls'[k] = urls[k]]_vars

\* a second link was written after the first one, which is still there
C22_Witness ==
    /\ Cardinality(DOMAIN urls) = 2
    /\ Encode(1) \in DOMAIN urls
    /\ urls[Encode(1)] = [scheme |-> "https", rest |-> "//example.com/a"]
    /\ last.kind = "api" /\ last.status = 200

\* the decoded id of the i-th key of an export
IdAt(keys, i) ==
    Decode(ShortOf(keys[i])).n

\* C26: an export that ends with 200 has one row (short URL, origin) for
\* each link that was stored when it read the keys, each once, in strictly
\* increasing order of the decoded id of the code.
C26_ExportSorted ==
    /\ [](last.kind = "export" /\ last.status = 200 =>
            /\ Len(last.rows) = Len(last.keys)
            /\ \A i \in 1..Len(last.keys) :
                  /\ last.rows[i].short = ShortURL(ShortOf(last.keys[i]))
                  /\ last.rows[i].origin = urls[ShortOf(last.keys[i])]
            /\ \A i, j \in 1..Len(last.keys) :
                  i < j => IdAt(last.keys, i) < IdAt(last.keys, j))
    /\ [][(started' = started + 1 /\ req' # req /\ Entered.kind = "export")
            => {Entered.keys[i] : i \in 1..Len(Entered.keys)} = UrlKeys]_vars

\* the rows of codes of one, two and three characters, in the order of the
\* ids, which is not the order of the strings
C26_Witness ==
    /\ last.kind = "export" /\ last.status = 200
    /\ Len(last.rows) = 3
    /\ IdAt(last.keys, 1) = 2
    /\ IdAt(last.keys, 2) = basis
    /\ IdAt(last.keys, 3) = basis * basis

\* C27: with the store answering, Index for a valid session succeeds and
\* reports the value of the counter and the short URL of its code, also on a
\* store on which no link has been issued.
C27_IndexReports ==
    [][\A r \in BagToSet(req) :
          (/\ r.kind = "index" /\ r.pc = "indexStats"
           /\ CopiesIn(r, req') < CopiesIn(r, req)
           /\ last'.status # 0 /\ last'.err # "store")
             => /\ last'.status = 200
                /\ last'.lastNum = count
                /\ last'.lastURL = ShortURL(Encode(count))]_vars

----------------------------------------------------------------------------
(* Properties of the users *)

\* C21: the cookie a successful login returned for the user u authenticates
\* as u until Logout has removed its token, whatever the name of u is.
C21_CookieAuthenticates ==
    (/\ last.kind = "login" /\ last.status = 302
     /\ last.cookie # << >>
     /\ last.cookie \notin logouts)
        => AuthCtx(last.cookie, TRUE) = last.user

\* a login request leaves CheckPassword with an answer
Checked(r) ==
    /\ r.kind = "login" /\ r.pc = "checkPassword"
    /\ CopiesIn(r, req') < CopiesIn(r, req)
    /\ last'.status # 0

\* C24: a login for a user without record and a login with a wrong password
\* for a user with a record end the same way: status 200, the message
\* "mismatch user or password", no cookie, no session token added.
C24_FailuresAlike ==
    [][\A r \in BagToSet(req) :
          (/\ Checked(r)
           /\ CheckPasswordErr(r.fuser, r.fpass, TRUE) \in {"nil", "mismatch"})
             => /\ last'.kind = "login" /\ last'.status = 200
                /\ last'.msg = "mismatch user or password"
                /\ last'.cookie = << >>
                /\ sessions' = sessions]_vars

\* a login for a user without record has failed while another user has one
C24_Witness ==
    /\ last.kind = "login" /\ last.status = 200
    /\ last.cookie = << >>
    /\ last.fuser \in CliUsers \ DOMAIN admins
    /\ DOMAIN admins # {}

\* C28: the password CreateOrUpdate returns for u passes CheckPassword for u
\* from then on, no other password generated so far does, the flag tells
\* that u had no record before the call, and no password passes for a user
\* without record.
C28_PasswordReplaced ==
    /\ []((last.kind = "createOrUpdate" /\ last.status = 0) =>
            /\ CheckPasswordErr(last.user, last.password, TRUE) = "none"
            /\ \A k \in 1..minted :
                  Passwd(k) # last.password =>
                     CheckPasswordErr(last.user, Passwd(k), TRUE) = "mismatch")
    /\ [](\A u \in CliUsers \ DOMAIN admins : \A k \in 1..MaxTokens :
              CheckPasswordErr(u, Passwd(k), TRUE) = "nil")
    /\ [][(started' = started + 1 /\ req' = req
              /\ last'.kind = "createOrUpdate" /\ last'.status = 0)
            => /\ last'.created = (last'.user \notin DOMAIN admins)
               /\ last'.password = Passwd(minted')
               /\ \A u \in DOMAIN admins : u # last'.user =>
                     admins'[u] = admins[u]]_vars

\* the password of a user was replaced while another user has a record
C28_Witness ==
    /\ last.kind = "createOrUpdate" /\ last.status = 0
    /\ ~last.created
    /\ last.password = Passwd(3)
    /\ DOMAIN admins = CliUsers

----------------------------------------------------------------------------
(* Properties of the window of a RateCounter *)

\* C31: the expiry of a RateCounter grows only by the EXPIRE of the request
\* that created it (count = 1), and whenever a request is rejected with 429
\* the counter of its client carries an expiry or the request that created
\* it is about to set it, so that a client that keeps sending rejected
\* requests is allowed again when the window has passed.
C31_RejectedWindowEnds ==
    /\ [][\A k \in DOMAIN hosts \cap DOMAIN hosts' :
            hosts'[k].ttl > hosts[k].ttl =>
               \E r \in BagToSet(req) :
                  ExpireStep(r) /\ r.key = k /\ r.rate = 1]_vars
    /\ [][\A r \in BagToSet(req) :
            RateRejects(r) =>
               \/ hosts'[r.key].ttl > 0
               \/ \E c \in BagToSet(req') :
                     c.kind = "api" /\ c.pc = "rateExpire" /\ c.key = r.key]_vars

\* the shorten request r moves in this step
Moves(r) ==
    r.kind = "api" /\ CopiesIn(r, req') < CopiesIn(r, req)

\* C32: the RateCounters of different client keys are independent: a step
\* of a request of the client key A changes no counter, expiry or history
\* of another key, and whether the request is rejected depends on the
\* counter of A alone; with user-agent checking on, requests of one address
\* with different user agents have different client keys, with it off they
\* have the same key.
C32_KeysIndependent ==
    /\ [](\A a \in Addrs, u1, u2 \in Agents :
            IF cfg.checkUA
            THEN (ClientKey(a, u1) = ClientKey(a, u2)) <=> (u1 = u2)
            ELSE ClientKey(a, u1) = ClientKey(a, u2))
    /\ [][\A r \in BagToSet(req) :
            Moves(r) =>
               /\ DOMAIN hosts' \subseteq DOMAIN hosts \cup {r.key}
               /\ \A k \in DOMAIN hosts \ {r.key} :
                     /\ k \in DOMAIN hosts'
                     /\ hosts'[k] = hosts[k]
               /\ \A k \in (DOMAIN passed \cup DOMAIN passed') \ {r.key} :
                     /\ k \in DOMAIN passed \cap DOMAIN passed'
                     /\ passed'[k] = passed[k]]_vars
    /\ [][\A r \in BagToSet(req) :
            RateStep(r) =>
               ( req' = Take(req, r)
                 <=> (CountOf(r.key) # 0 /\ CountOf(r.key) + 1 >= cfg.count) )]_vars

\* with user-agent checking on and the limit 1, the requests of two user
\* agents of one address were both let pass, each on its own counter
C32_Witness ==
    /\ cfg.checkUA /\ cfg.count = 1
    /\ \E a \in Addrs, u1, u2 \in Agents :
          /\ u1 # u2
          /\ ClientKey(a, u1) \in DOMAIN hosts
          /\ ClientKey(a, u2) \in DOMAIN hosts
          /\ hosts[ClientKey(a, u1)].n = 1
          /\ hosts[ClientKey(a, u2)].n = 1
          /\ PassedOf(ClientKey(a, u1)).life = 1
          /\ PassedOf(ClientKey(a, u2)).life = 1

----------------------------------------------------------------------------
(* Properties of a stored CSRF token *)

\* the GET of GetCSRF for the request r, with a token stored for its user
GetStored(r) ==
    /\ r.pc = "csrfGet" /\ r.user \in DOMAIN csrf
    /\ CopiesIn(r, req') < CopiesIn(r, req)

\* C33: while a token T is stored for the user u, a call of GetCSRF for u
\* that the store answers returns T, stores nothing and generates nothing;
\* the value stored for u is never replaced while it is stored and its
\* expiry is only set once, by the EXPIRE of the call that stored it, never
\* renewed; at most one token is accepted for a user at any time.
C33_GetCSRFIdempotent ==
    /\ [][\A r \in BagToSet(req) :
            GetStored(r) =>
               /\ csrf' = csrf /\ minted' = minted
               /\ \A c \in BagToSet(req') :
                     c.pc = "csrfSetnx" => CopiesIn(c, req') <= CopiesIn(c, req)
               /\ (last'.kind = "getcsrf" /\ last'.status = 200)
                     => last'.token = csrf[r.user].val
               /\ granted' \subseteq
                     granted \cup {[user |-> r.user, tok |-> csrf[r.user].val]}
         ]_vars
    /\ [][\A u \in DOMAIN csrf \cap DOMAIN csrf' :
            /\ csrf'[u].val = csrf[u].val
            /\ csrf'[u].ttl > csrf[u].ttl =>
                  /\ csrf[u].ttl = 0
                  /\ \E r \in BagToSet(req) :
                        /\ r.pc = "csrfExpire" /\ r.user = u
                        /\ r.token = csrf[u].val
                        /\ CopiesIn(r, req') < CopiesIn(r, req)]_vars
    /\ [](\A u \in CtxUsers :
            Cardinality({k \in 1..minted : CheckResult(u, CsrfTok(k))}) <= 1)

\* a second call of GetCSRF returned the one token that was generated,
\* a second after its expiry was set
C33_Witness ==
    /\ started = 2 /\ minted = 1 /\ req = EmptyBag
    /\ last.kind = "getcsrf" /\ last.status = 200
    /\ last.user \in DOMAIN csrf
    /\ csrf[last.user].val = last.token
    /\ csrf[last.user].ttl = CSRFTimeout - 1

----------------------------------------------------------------------------
(* Properties of the order of persistence and response *)

\* HandleAPI writes the response of the request r in this step
Answers(r) ==
    /\ Moves(r) /\ r.pc = "urlSet"
    /\ Len(responses') = Len(responses) + 1

\* C34 as stated: when HandleAPI answers 200 with the code c the mapping
\* url:<c> -> submitted URL is stored, and every later resolve of c that the
\* store answers redirects to the submitted URL.
C34_PersistedSubmitted ==
    /\ [][\A r \in BagToSet(req) :
            Answers(r) =>
               /\ r.short \in DOMAIN urls'
               /\ urls'[r.short] = r.raw]_vars
    /\ [][(RedirectStep /\ last'.reply # "error") =>
            \A i \in 1..Len(responses) :
               responses[i].short = last'.short =>
                  /\ last'.status = 302
                  /\ last'.location = responses[i].raw]_vars

\* C34: when HandleAPI answers 200 with the code c the mapping of url:<c>
\* to the URL of the response (the submitted URL as re-serialised by
\* url.Parse and URL.String) is stored, and every later resolve of c that
\* the store answers redirects to that URL.
C34_PersistedParsed ==
    /\ [][\A r \in BagToSet(req) :
            Answers(r) =>
               /\ r.short \in DOMAIN urls'
               /\ urls'[r.short] = URLString(r.raw)
               /\ responses'[Len(responses')] =
                     [raw |-> r.raw, url |-> urls'[r.short], short |-> r.short]
         ]_vars
    /\ [][(RedirectStep /\ last'.reply # "error") =>
            \A i \in 1..Len(responses) :
               responses[i].short = last'.short =>
                  /\ last'.status = 302
                  /\ last'.location = URLString(responses[i].raw)]_vars

\* a code answered for a URL with an upper-case scheme was resolved after
\* the answer
C34_Witness ==
    /\ last.kind = "redirect" /\ last.status = 302
    /\ \E i \in 1..Len(responses) :
          /\ responses[i].short = last.short
          /\ responses[i].raw.scheme = "HTTPS"
          /\ last.location = responses[i].url
          /\ last.location # responses[i].raw

----------------------------------------------------------------------------
(* Properties of the stored links and the Counter *)

\* the ids up to the Counter that have neither a mapping nor a request
\* about to write it
LostIds ==
    {n \in 1..count : Lost(n)}

\* the shorten requests between the increment and the SET
Pending ==
    BagCardinality(
        [r \in {x \in BagToSet(req) : x.kind = "api" /\ x.pc = "urlSet"}
            |-> CopiesIn(r, req)])

\* C35: every stored url:<code> key has the code of an id between 1 and the
\* Counter, and the number of stored links is the Counter less the ids that
\* were lost and the allocations between increment and SET: never more than
\* the Counter, and equal to it only when there is none of either.
C35_LinksWithinCounter ==
    /\ \A c \in DOMAIN urls : \E id \in 1..count : c = Encode(id)
    /\ Cardinality(DOMAIN urls) <= count
    /\ Cardinality(DOMAIN urls) = count - Cardinality(LostIds) - Pending

\* two ids were handed out: one is stored and the other was lost, so the
\* stored links are fewer than the Counter with no request in progress
C35_Witness ==
    /\ count = 2
    /\ Cardinality(DOMAIN urls) = 1
    /\ Cardinality(LostIds) = 1
    /\ Pending = 0

----------------------------------------------------------------------------
(* Properties of the connection pool *)

\* the request of the worker w is about to take a connection
Wants(w) ==
    \E r \in PoolReqs : r.id = w /\ Head(r.steps) = "get"

----------------------------------------------------------------------------
(* Properties of a password change *)

\* a call of CreateOrUpdate, which takes one round trip
UpdateStep ==
    started' = started + 1 /\ req' = req /\ last'.kind = "createOrUpdate"

\* C37: a call of CreateOrUpdate changes nothing but the password record of
\* its user: the session sets, the CSRF tokens and the records of the other
\* users stay as they are, and every session cookie that authenticated
\* before the call authenticates after it.
C37_UpdateKeepsSessions ==
    [][UpdateStep =>
          /\ sessions' = sessions
          /\ csrf' = csrf
          /\ DOMAIN admins' \subseteq DOMAIN admins \cup {last'.user}
          /\ \A u \in DOMAIN admins :
                u # last'.user => admins'[u] = admins[u]
          /\ \A c \in SessionCookies : AuthOK(c) => AuthOK(c)'
      ]_vars

\* the password of a user was replaced after the user had logged in, and
\* the session of that login still authenticates
C37_Witness ==
    /\ last.kind = "createOrUpdate" /\ last.status = 0
    /\ ~last.created
    /\ last.user \in DOMAIN sessions
    /\ \E t \in sessions[last.user] : AuthOK(CookieOf(last.user, t))
    /\ CheckPasswordErr(last.user, Passwd(1), TRUE) = "mismatch"

----------------------------------------------------------------------------
(* Properties of the answer to a failed handler *)

\* the messages that are not for the caller
InternalMessages ==
    StoreErrors \cup ContextErrors \cup TemplateErrors \cup WriteErrors

\* the text http.Error wrote, NoErr for none
ErrorText(reply) ==
    IF reply.err = NoErr THEN NoErr ELSE reply.body[Len(reply.body)]

\* C38: for a handler that returned an error with a status other than 400
\* the answer carries the status text of that status and no message of the
\* store or of another internal error; with the status 400 it carries the
\* message of the handler, which is one of its validation messages; no
\* answer carries an internal message in any part.
C38_GenericErrors ==
    (last.kind = "reply" /\ last.err # NoErr) =>
        /\ last.code # 400 => ErrorText(last) = StatusText(last.code)
        /\ (last.code = 400 /\ last.path # "short") =>
              /\ ErrorText(last) = last.err
              /\ last.err \in ValidationErrors
        /\ \A i \in 1..Len(last.body) : last.body[i] \notin InternalMessages

\* HandleAPI failed on a store error and the caller got the status text
\* of 500
C38_Witness ==
    /\ last.kind = "reply" /\ last.path = "api/add"
    /\ last.code = 500 /\ last.err \in StoreErrors
    /\ last.status = 500
    /\ last.body = <<"Internal Server Error">>

====
